---- MODULE Spec2Model ----
(***************************************************************************)
(* A model of the mini-rdbms engine: typed values, table schemas, the      *)
(* in-memory Table with its hash indices, the JSON persistence layer with  *)
(* its write-temp-then-rename protocol, the predicate evaluator, the plan  *)
(* nodes and the engine dispatcher.                                        *)
(*                                                                         *)
(* Conventions.  A Go interface{} cell is a record [k, n, s]: k is the     *)
(* dynamic type ("int", "string", "float64"), n the number, s the string.  *)
(* A Go map is a function whose DOMAIN is the key set.  A Go slice is a    *)
(* sequence together with its capacity where the capacity matters.  Go     *)
(* index -1 ("not found") is 0 here, sequences being 1-based.              *)
(***************************************************************************)
EXTENDS Integers, Sequences, FiniteSets, TLC

VARIABLES
    tables,   \* Engine.Tables: table name -> Table (memory resident)
    disk,     \* data directory: file name -> file content
    save,     \* the SaveTable call in progress, with the statement's pending result
    last,     \* what the last finished Execute call returned
    faults,   \* crashes and I/O failures so far
    mu,       \* Table.mu of the table goroutines share: the sync.RWMutex
    gor       \* the goroutines calling the table's methods: where each one is

vars == <<tables, disk, save, last, faults, mu, gor>>

----------------------------------------------------------------------------
(* Bounds of the model *)

MaxRows == 2
MaxTables == 1
MaxJoinTables == 2
MaxFaults == 1

----------------------------------------------------------------------------
(* types.DataType and types.Value *)

TypeInt == "INT"
TypeText == "TEXT"

IntVal(i) == [k |-> "int", n |-> i, s |-> ""]
StrVal(str) == [k |-> "string", n |-> 0, s |-> str]
FloatVal(f) == [k |-> "float64", n |-> f, s |-> ""]

MkValue(type, val) == [Type |-> type, Val |-> val]

\* Position of a string in Go's byte order, for the strings of the model.
StrOrd(str) == CASE str = "" -> 0 [] str = "a" -> 1 [] str = "b" -> 2 [] OTHER -> 3

\* Value.AsInt; the error is dropped by every caller that matters here.
AsInt(v) ==
    IF v.Type # TypeInt THEN 0
    ELSE IF v.Val.k = "int" THEN v.Val.n
    ELSE IF v.Val.k = "float64" THEN v.Val.n
    ELSE 0

\* Value.AsText
AsText(v) ==
    IF v.Type # TypeText THEN ""
    ELSE IF v.Val.k = "string" THEN v.Val.s
    ELSE ""

\* Value.Compare: [cmp, err]; a type mismatch returns cmp = 0 WITH an error.
Compare(v, other) ==
    IF v.Type # other.Type THEN [cmp |-> 0, err |-> "type mismatch"]
    ELSE IF v.Type = TypeInt THEN
        [cmp |-> IF AsInt(v) < AsInt(other) THEN -1
                 ELSE IF AsInt(v) > AsInt(other) THEN 1 ELSE 0,
         err |-> ""]
    ELSE IF v.Type = TypeText THEN
        [cmp |-> IF StrOrd(AsText(v)) < StrOrd(AsText(other)) THEN -1
                 ELSE IF StrOrd(AsText(v)) > StrOrd(AsText(other)) THEN 1 ELSE 0,
         err |-> ""]
    ELSE [cmp |-> 0, err |-> "unsupported comparison type"]

----------------------------------------------------------------------------
(* schema.ColumnDef and schema.TableDef *)

Col(name, type, isPrimary, isUnique) ==
    [Name |-> name, Type |-> type, IsPrimary |-> isPrimary, IsUnique |-> isUnique]

\* TableDef.GetColumnIndex: the first column of that name, 0 when there is none.
GetColumnIndex(def, name) ==
    IF \E i \in 1..Len(def.Columns) : def.Columns[i].Name = name
    THEN CHOOSE i \in 1..Len(def.Columns) :
            /\ def.Columns[i].Name = name
            /\ \A j \in 1..(i - 1) : def.Columns[j].Name # name
    ELSE 0

\* TableDef.GetColumn
HasColumn(def, name) == GetColumnIndex(def, name) # 0
GetColumn(def, name) == def.Columns[GetColumnIndex(def, name)]

\* TableDef.GetPrimaryKey: the index of the FIRST column flagged primary, 0 when none.
PrimaryKeyIndex(def) ==
    IF \E i \in 1..Len(def.Columns) : def.Columns[i].IsPrimary
    THEN CHOOSE i \in 1..Len(def.Columns) :
            /\ def.Columns[i].IsPrimary
            /\ \A j \in 1..(i - 1) : ~def.Columns[j].IsPrimary
    ELSE 0

\* A definition check that lets every column list pass.
AcceptsAnyColumns(def) == TRUE

\* execCreate's validation: GetPrimaryKey finds a column.
HasPrimaryKey(def) == PrimaryKeyIndex(def) # 0

----------------------------------------------------------------------------
(* Go maps *)

EmptyMap == [x \in {} |-> x]
MapSet(m, key, v) == [x \in (DOMAIN m) \cup {key} |-> IF x = key THEN v ELSE m[x]]
MapDelete(m, key) == [x \in (DOMAIN m) \ {key} |-> m[x]]

\* All orders in which a Go map range may visit the keys of S.
Orders(S) ==
    {q \in [1..Cardinality(S) -> S] : \A i, j \in 1..Cardinality(S) : q[i] = q[j] => i = j}

----------------------------------------------------------------------------
(* index.HashIndex: Data is keyed by the raw cell (Value.Val), not by the tag *)

IndexGet(idx, val) == [pk |-> IF val.Val \in DOMAIN idx THEN idx[val.Val] ELSE IntVal(0),
                       ok |-> val.Val \in DOMAIN idx]
IndexSet(idx, val, pk) == MapSet(idx, val.Val, pk)
IndexDelete(idx, val) == MapDelete(idx, val.Val)

----------------------------------------------------------------------------
(* storage.Row and storage.Table *)

Row(values, capacity) == [Values |-> values, cap |-> capacity]

IndexedColumns(def) ==
    {def.Columns[i].Name : i \in {j \in 1..Len(def.Columns) :
                                     def.Columns[j].IsPrimary \/ def.Columns[j].IsUnique}}

\* storage.NewTable
NewTable(def) ==
    [Def |-> def, Rows |-> EmptyMap, Indices |-> [c \in IndexedColumns(def) |-> EmptyMap]]

\* Table.Insert, check 1: a row is already stored under the new row's key cell.
\* (InsertOverwrites is the faulty variant that skips the check.)
InsertOverwrites(t, values) == FALSE
InsertPkClash(t, values) == values[PrimaryKeyIndex(t.Def)].Val \in DOMAIN t.Rows

\* Table.Insert, check 2: the index of a unique, non-primary column already
\* holds the new cell.  (InsertIgnoresUnique is the faulty variant.)
InsertIgnoresUnique(t, values) == FALSE
InsertUniqueClash(t, values) ==
    \E i \in 1..Len(t.Def.Columns) :
        /\ t.Def.Columns[i].IsUnique /\ ~t.Def.Columns[i].IsPrimary
        /\ t.Def.Columns[i].Name \in DOMAIN t.Indices
        /\ IndexGet(t.Indices[t.Def.Columns[i].Name],
                    values[GetColumnIndex(t.Def, t.Def.Columns[i].Name)]).ok

InsertTypeClash(t, values) ==
    \E i \in 1..Len(values) : values[i].Type # t.Def.Columns[i].Type

InsertStore(t, values, capacity) ==
    LET pk == values[PrimaryKeyIndex(t.Def)].Val
    IN [Def |-> t.Def,
        Rows |-> MapSet(t.Rows, pk, Row(values, capacity)),
        Indices |-> [c \in DOMAIN t.Indices |->
                        IndexSet(t.Indices[c], values[GetColumnIndex(t.Def, c)], pk)]]

\* Table.Insert: [err, t]; err = "" is success.  (InsertStoresFirst is the
\* faulty variant that stores the row before it checks the unique columns.)
InsertStoresFirst(t, values, capacity) ==
    IF Len(values) # Len(t.Def.Columns) THEN [err |-> "column count mismatch", t |-> t]
    ELSE IF InsertTypeClash(t, values) THEN [err |-> "type mismatch", t |-> t]
    ELSE IF ~HasPrimaryKey(t.Def) THEN [err |-> "no primary key", t |-> t]
    ELSE IF InsertPkClash(t, values) THEN [err |-> "duplicate primary key", t |-> t]
    ELSE [err |-> IF InsertUniqueClash(t, values) THEN "duplicate unique value" ELSE "",
          t |-> InsertStore(t, values, capacity)]
TableInsert(t, values, capacity) ==
    IF Len(values) # Len(t.Def.Columns) THEN [err |-> "column count mismatch", t |-> t]
    ELSE IF InsertTypeClash(t, values) THEN [err |-> "type mismatch", t |-> t]
    ELSE IF ~HasPrimaryKey(t.Def) THEN [err |-> "no primary key", t |-> t]
    ELSE IF InsertPkClash(t, values) THEN [err |-> "duplicate primary key", t |-> t]
    ELSE IF InsertUniqueClash(t, values) THEN [err |-> "duplicate unique value", t |-> t]
    ELSE [err |-> "", t |-> InsertStore(t, values, capacity)]

\* Table.Delete
TableDelete(t, pk) ==
    IF pk.Val \notin DOMAIN t.Rows THEN [err |-> "row not found", t |-> t]
    ELSE [err |-> "",
          t |-> [Def |-> t.Def,
                 Rows |-> MapDelete(t.Rows, pk.Val),
                 Indices |-> [c \in DOMAIN t.Indices |->
                        IndexDelete(t.Indices[c],
                                    t.Rows[pk.Val].Values[GetColumnIndex(t.Def, c)])]]]

\* The columns Table.Update re-checks and re-indexes: unique, not primary, cell changed.
UpdateChanged(t, oldRow, newValues) ==
    {i \in 1..Len(t.Def.Columns) :
        /\ t.Def.Columns[i].IsUnique /\ ~t.Def.Columns[i].IsPrimary
        /\ newValues[i].Val # oldRow.Values[i].Val}

UpdateStore(t, pk, oldRow, newValues) ==
    LET changed == {t.Def.Columns[i].Name : i \in UpdateChanged(t, oldRow, newValues)}
    IN [Def |-> t.Def,
        Rows |-> MapSet(t.Rows, pk.Val, Row(newValues, Len(newValues))),
        Indices |-> [c \in DOMAIN t.Indices |->
            IF c \in changed
            THEN IndexSet(IndexDelete(t.Indices[c], oldRow.Values[GetColumnIndex(t.Def, c)]),
                          newValues[GetColumnIndex(t.Def, c)], pk.Val)
            ELSE t.Indices[c]]]

\* Table.Update, the key check: the new row's key cell differs from the stored
\* row's.  (UpdateMovesKey is the faulty variant that skips the check.)
UpdateMovesKey(t, pk, newValues) == FALSE
UpdatePkChanging(t, pk, newValues) ==
    newValues[PrimaryKeyIndex(t.Def)].Val # t.Rows[pk.Val].Values[PrimaryKeyIndex(t.Def)].Val

\* Table.Update, the unique check: a changed unique cell is already in its index.
UpdateUniqueClash(t, pk, newValues) ==
    \E i \in UpdateChanged(t, t.Rows[pk.Val], newValues) :
        IndexGet(t.Indices[t.Def.Columns[i].Name], newValues[i]).ok

\* Table.Update: no type validation of the new cells.
TableUpdate(t, pk, newValues) ==
    IF pk.Val \notin DOMAIN t.Rows THEN [err |-> "row not found", t |-> t]
    ELSE IF Len(newValues) # Len(t.Def.Columns) THEN [err |-> "column count mismatch", t |-> t]
    ELSE IF UpdatePkChanging(t, pk, newValues)
        THEN [err |-> "updating primary key is not supported", t |-> t]
    ELSE IF UpdateUniqueClash(t, pk, newValues) THEN [err |-> "duplicate unique value", t |-> t]
    ELSE [err |-> "", t |-> UpdateStore(t, pk, t.Rows[pk.Val], newValues)]

\* Table.GetRow
GetRow(t, pk) == [row |-> IF pk \in DOMAIN t.Rows THEN t.Rows[pk] ELSE Row(<<>>, 0),
                  ok |-> pk \in DOMAIN t.Rows]

\* Table.IndexLookup
IndexLookup(t, colName, val) ==
    IF colName \notin DOMAIN t.Indices THEN [pk |-> IntVal(0), ok |-> FALSE]
    ELSE IndexGet(t.Indices[colName], val)

----------------------------------------------------------------------------
(* storage/disk.go: the JSON file of a table *)

TempName == "tmp"

EncodeVal(val) ==
    IF val.k = "string" THEN [j |-> "string", n |-> 0, s |-> val.s]
    ELSE [j |-> "number", n |-> val.n, s |-> ""]

\* encoding/json into interface{}: every JSON number arrives as a float64.
DecodeVal(js) == IF js.j = "string" THEN StrVal(js.s) ELSE FloatVal(js.n)

EncodeRow(row) == [i \in 1..Len(row.Values) |->
                      [Type |-> row.Values[i].Type, Val |-> EncodeVal(row.Values[i].Val)]]

\* SerializableTable for a snapshot (the rows in the order GetSnapshot returned them).
Serialize(t, snapshot) ==
    [Name |-> t.Def.Name, Columns |-> t.Def.Columns,
     Rows |-> [i \in 1..Len(snapshot) |-> EncodeRow(snapshot[i])]]

EmptyData == [Name |-> "", Columns |-> <<>>, Rows |-> <<>>]
PartialFile == [complete |-> FALSE, data |-> EmptyData]
CompleteFile(data) == [complete |-> TRUE, data |-> data]

\* Table.GetSnapshot: the rows, in any order of the map range.
Snapshots(t) ==
    {[i \in 1..Cardinality(DOMAIN t.Rows) |-> t.Rows[q[i]]] : q \in Orders(DOMAIN t.Rows)}

\* LoadTable, the cell fix-up: the tag is the column's type; a float64 in an INT
\* column becomes an int again, every other cell stays as decoded.
FixValue(colType, js) ==
    IF colType = TypeInt /\ DecodeVal(js).k = "float64"
    THEN MkValue(colType, IntVal(DecodeVal(js).n))
    ELSE MkValue(colType, DecodeVal(js))

FixRow(def, jrow) == [i \in 1..Len(jrow) |-> FixValue(def.Columns[i].Type, jrow[i].Val)]

\* LoadTable, one row: stored under its primary-key cell, every index set.
LoadRow(t, fixedValues) ==
    LET pk == fixedValues[PrimaryKeyIndex(t.Def)].Val
    IN [Def |-> t.Def,
        Rows |-> MapSet(t.Rows, pk, Row(fixedValues, Len(fixedValues))),
        Indices |-> [c \in DOMAIN t.Indices |->
                        IndexSet(t.Indices[c], fixedValues[GetColumnIndex(t.Def, c)], pk)]]

RECURSIVE LoadRows(_, _, _)
LoadRows(t, jrows, i) ==
    IF i > Len(jrows) THEN t
    ELSE LoadRows(LoadRow(t, FixRow(t.Def, jrows[i])), jrows, i + 1)

\* LoadTable on the content of a table file.
LoadFile(file) ==
    IF ~file.complete THEN [err |-> "decode error", t |-> NewTable([Name |-> "", Columns |-> <<>>])]
    ELSE [err |-> "",
          t |-> LoadRows(NewTable([Name |-> file.data.Name, Columns |-> file.data.Columns]),
                         file.data.Rows, 1)]

\* LoadTable(tableName) against a data directory.
LoadTable(dir, name) ==
    IF name \notin DOMAIN dir
    THEN [err |-> "table not found", t |-> NewTable([Name |-> "", Columns |-> <<>>])]
    ELSE LoadFile(dir[name])

----------------------------------------------------------------------------
(* parser: literals, expressions and the statements the model submits *)

\* Parser.parseValue: a number token is an INT holding an int, a string token a TEXT.
NumberLiteral(i) == MkValue(TypeInt, IntVal(i))
StringLiteral(str) == MkValue(TypeText, StrVal(str))

\* Parser.parseInsert builds stmt.Values by append from nil: the capacity Go's
\* append gives a slice grown one element at a time (1, 2, 4, 8, ...).
RECURSIVE AppendCap(_)
AppendCap(n) ==
    IF n = 0 THEN 0
    ELSE IF n > AppendCap(n - 1)
         THEN (IF AppendCap(n - 1) = 0 THEN 1 ELSE 2 * AppendCap(n - 1))
         ELSE AppendCap(n - 1)

\* ComparisonExpression, InfixExpression and the absent WHERE clause.
Cmp(col, val) == [kind |-> "cmp", Column |-> col, Operator |-> "=", Value |-> val]
Infix(l, op, r) == [kind |-> "infix", Left |-> l, Operator |-> op, Right |-> r]
NoWhere == [kind |-> "nil"]

\* The CREATE TABLE statements submitted: table name -> column list.
UsersColumns ==
    <<Col("id", TypeInt, TRUE, FALSE), Col("name", TypeText, FALSE, TRUE),
      Col("email", TypeText, FALSE, FALSE), Col("age", TypeInt, FALSE, FALSE),
      Col("city", TypeText, FALSE, FALSE)>>
OrdersColumns == <<Col("id", TypeInt, TRUE, FALSE), Col("user_id", TypeInt, FALSE, FALSE)>>
PairsColumns == <<Col("a", TypeInt, TRUE, FALSE), Col("b", TypeInt, TRUE, FALSE)>>
NoPkColumns == <<Col("x", TypeInt, FALSE, FALSE)>>

TableNames == {"users", "orders", "pairs", "nopk"}

CreateColumns(name) ==
    CASE name = "users" -> UsersColumns
      [] name = "orders" -> OrdersColumns
      [] name = "pairs" -> PairsColumns
      [] OTHER -> NoPkColumns

\* The tables INSERT, DELETE and SELECT statements are submitted on.
DmlNames == {"users", "orders", "pairs"}

\* The value lists of the INSERT statements submitted on each table: rows of the
\* table's shape with literals of either type in the first two cells, and one
\* list that is too short.
InsertValues(name) ==
    IF name = "users"
    THEN {<<x, y, StringLiteral("a"), NumberLiteral(1), StringLiteral("a")>> :
            x \in {NumberLiteral(1), NumberLiteral(2), StringLiteral("a")},
            y \in {NumberLiteral(1), StringLiteral("a"), StringLiteral("b")}}
         \cup {<<NumberLiteral(1)>>}
    ELSE {<<x, y>> : x \in {NumberLiteral(1), NumberLiteral(2)},
                     y \in {NumberLiteral(1), NumberLiteral(2), StringLiteral("a")}}
         \cup {<<NumberLiteral(1)>>}

\* The column names statements on a table use in SET and WHERE.
StmtColumns(name) == {CreateColumns(name)[i].Name : i \in 1..Len(CreateColumns(name)) \cap 1..2}

\* The tables UPDATE statements are submitted on, the assignments they make
\* (a cell of its own type, of the other type, the key column, no column of the
\* table) and their WHERE clauses (on the key, on another column with a literal
\* of its type and of the other type, on no column of the table).
UpdateNames == {"users", "pairs"}
Assignments(name) ==
    IF name = "users"
    THEN {<<"id", NumberLiteral(1)>>, <<"id", StringLiteral("a")>>,
          <<"name", StringLiteral("a")>>, <<"name", StringLiteral("b")>>,
          <<"name", NumberLiteral(1)>>, <<"nosuch", NumberLiteral(1)>>}
    ELSE {<<"a", NumberLiteral(1)>>, <<"a", NumberLiteral(2)>>,
          <<"b", NumberLiteral(1)>>, <<"b", NumberLiteral(2)>>, <<"nosuch", NumberLiteral(1)>>}
UpdateWheres(name) ==
    IF name = "users"
    THEN {Cmp("id", NumberLiteral(1)), Cmp("id", NumberLiteral(2)),
          Cmp("name", StringLiteral("a")), Cmp("name", NumberLiteral(1)),
          Cmp("nosuch", NumberLiteral(1))}
    ELSE {Cmp("a", NumberLiteral(1)), Cmp("a", NumberLiteral(2)),
          Cmp("b", NumberLiteral(1)), Cmp("nosuch", NumberLiteral(1))}

\* The WHERE clauses submitted on a table.
Wheres(name) ==
    {Cmp(c, v) : c \in StmtColumns(name),
                 v \in {NumberLiteral(1), NumberLiteral(2), StringLiteral("a")}}
    \cup {Cmp("nosuch", NumberLiteral(1))}

----------------------------------------------------------------------------
(* engine/evaluator.go *)

RECURSIVE Evaluate(_, _, _)
Evaluate(expr, row, def) ==
    IF expr.kind = "nil" THEN TRUE
    ELSE IF expr.kind = "cmp" THEN
        IF GetColumnIndex(def, expr.Column) = 0 THEN FALSE
        ELSE IF expr.Operator = "="
             THEN Compare(row.Values[GetColumnIndex(def, expr.Column)], expr.Value).cmp = 0
             ELSE FALSE
    ELSE IF expr.kind = "infix" THEN
        IF expr.Operator = "AND"
            THEN Evaluate(expr.Left, row, def) /\ Evaluate(expr.Right, row, def)
        ELSE IF expr.Operator = "OR"
            THEN Evaluate(expr.Left, row, def) \/ Evaluate(expr.Right, row, def)
        ELSE FALSE
    ELSE FALSE

----------------------------------------------------------------------------
(* engine/planner.go: plan nodes *)

\* stripTablePrefix, on the qualified names the statements of the model use.
StripTablePrefix(ident) ==
    CASE ident = "users.id" -> "id"
      [] ident = "users.name" -> "name"
      [] ident = "orders.id" -> "id"
      [] ident = "orders.user_id" -> "user_id"
      [] OTHER -> ident

\* The rows of a table in the order one map range visits them.
RowsInOrder(t, order) == [i \in 1..Len(order) |-> t.Rows[order[i]]]

RECURSIVE FilterRows(_, _, _, _)
FilterRows(rows, where, def, i) ==
    IF i > Len(rows) THEN <<>>
    ELSE (IF Evaluate(where, rows[i], def) THEN <<rows[i]>> ELSE <<>>)
         \o FilterRows(rows, where, def, i + 1)

\* A scan that does not yield the last row the map range visits.
ScanSkipsLast(t, order, where) ==
    FilterRows(RowsInOrder(t, SubSeq(order, 1, Len(order) - 1)), where, t.Def, 1)

\* ScanNode.Execute with the predicate planSelect gives it (every row when the
\* statement has no WHERE), the context never cancelled.
ScanExecute(t, order, where) == FilterRows(RowsInOrder(t, order), where, t.Def, 1)

\* IndexScanNode.Execute: the index gives a key, the row map the row.
IndexScanExecute(t, indexName, val) ==
    IF ~IndexLookup(t, indexName, val).ok THEN <<>>
    ELSE IF ~GetRow(t, IndexLookup(t, indexName, val).pk).ok THEN <<>>
    ELSE <<GetRow(t, IndexLookup(t, indexName, val).pk).row>>

\* JoinNode.Execute, the equality check of the inner loop.
JoinMatch(lRow, rRow, lIdx, rIdx) ==
    /\ Compare(lRow.Values[lIdx], rRow.Values[rIdx]).err = ""
    /\ Compare(lRow.Values[lIdx], rRow.Values[rIdx]).cmp = 0

\* The pairs <<i, j>> the nested loop emits, in the order it emits them.
RECURSIVE JoinPairs(_, _, _, _, _)
JoinPairs(leftRows, rightRows, lIdx, rIdx, n) ==
    IF n > Len(leftRows) * Len(rightRows) THEN <<>>
    ELSE LET i == ((n - 1) \div Len(rightRows)) + 1
             j == ((n - 1) % Len(rightRows)) + 1
         IN (IF JoinMatch(leftRows[i], rightRows[j], lIdx, rIdx) THEN <<<<i, j>>>> ELSE <<>>)
            \o JoinPairs(leftRows, rightRows, lIdx, rIdx, n + 1)

\* append(lRow.Values, rRow.Values...) writes in place when the left row's slice
\* has the spare capacity, so every row combined from that left row shares its
\* backing array and shows the right row appended last; otherwise it copies.
Combined(leftRows, rightRows, pairs, n) ==
    LET i == pairs[n][1]
        j == pairs[n][2]
        lastJ == CHOOSE m \in 1..Len(rightRows) :
                    /\ \E q \in 1..Len(pairs) : pairs[q] = <<i, m>>
                    /\ \A q \in 1..Len(pairs) : pairs[q][1] = i => pairs[q][2] <= m
    IN IF Len(leftRows[i].Values) + Len(rightRows[j].Values) <= leftRows[i].cap
       THEN Row(leftRows[i].Values \o rightRows[lastJ].Values, leftRows[i].cap)
       ELSE Row(leftRows[i].Values \o rightRows[j].Values,
                Len(leftRows[i].Values) + Len(rightRows[j].Values))

\* JoinNode.Execute on the materialized inputs: [err, rows].
JoinExecute(leftRows, rightRows, lSchema, rSchema, leftCol, rightCol) ==
    IF GetColumnIndex(lSchema, leftCol) = 0 \/ GetColumnIndex(rSchema, rightCol) = 0
    THEN [err |-> "join columns not found", rows |-> <<>>]
    ELSE LET pairs == JoinPairs(leftRows, rightRows, GetColumnIndex(lSchema, leftCol),
                                GetColumnIndex(rSchema, rightCol), 1)
         IN [err |-> "",
             rows |-> [n \in 1..Len(pairs) |-> Combined(leftRows, rightRows, pairs, n)]]

\* JoinNode.Schema
JoinSchema(l, r) == [Name |-> <<l.Name, "_", r.Name>>, Columns |-> l.Columns \o r.Columns]

\* LimitNode.Execute
LimitExecute(rows, limit) == IF Len(rows) > limit THEN SubSeq(rows, 1, limit) ELSE rows

\* A planner that never takes the index path.
NeverUsesIndex(t, where) == FALSE

\* planSelect: the index path is taken for a single "=" comparison on a column
\* flagged primary or unique.
UsesIndexScan(t, where) ==
    /\ where.kind = "cmp"
    /\ where.Operator = "="
    /\ HasColumn(t.Def, where.Column)
    /\ (GetColumn(t.Def, where.Column).IsPrimary \/ GetColumn(t.Def, where.Column).IsUnique)

\* The access path planSelect builds for the FROM table, executed.
AccessExecute(t, order, where) ==
    IF UsesIndexScan(t, where) THEN IndexScanExecute(t, where.Column, where.Value)
    ELSE ScanExecute(t, order, where)

\* planSelect, the node built for the FROM table: an IndexScanNode on the
\* comparison's column and literal, or a ScanNode with the WHERE predicate.
PlanNode(t, where) ==
    IF UsesIndexScan(t, where)
    THEN [node |-> "IndexScanNode", IndexName |-> where.Column, Predicate |-> where]
    ELSE [node |-> "ScanNode", IndexName |-> "", Predicate |-> where]

NoJoin == [Table |-> "", OnLeft |-> "", OnRight |-> ""]

\* A projection that takes the first cells of the row, whatever the fields.
ProjectFirstCells(row, schema, fields) ==
    Row([k \in 1..Len(fields) |-> row.Values[k]], Len(fields))

\* Engine.projectResult: [err, rows].
ProjectRow(row, schema, fields) ==
    Row([k \in 1..Len(fields) |-> row.Values[GetColumnIndex(schema, StripTablePrefix(fields[k]))]],
        Len(fields))

ProjectResult(rows, schema, fields) ==
    IF \E k \in 1..Len(fields) : fields[k] = "*" THEN [err |-> "", rows |-> rows]
    ELSE IF \E k \in 1..Len(fields) : GetColumnIndex(schema, StripTablePrefix(fields[k])) = 0
        THEN [err |-> "column not found in result", rows |-> <<>>]
    ELSE [err |-> "", rows |-> [n \in 1..Len(rows) |-> ProjectRow(rows[n], schema, fields)]]

\* projectResult, the Columns of the ResultSet: the schema's column names for
\* "*", the fields as they were requested otherwise.
ProjectColumns(schema, fields) ==
    IF \E k \in 1..Len(fields) : fields[k] = "*"
    THEN [i \in 1..Len(schema.Columns) |-> schema.Columns[i].Name]
    ELSE fields

\* CreatePlan and plan.Execute for a SELECT, given the orders lo and ro in which
\* the scans of the FROM table and of the JOIN table visit their rows: [err, rows, schema].
PlanExecute(tabs, name, join, where, limit, lo, ro) ==
    IF name \notin DOMAIN tabs
        THEN [err |-> "table not found", rows |-> <<>>, schema |-> [Name |-> "", Columns |-> <<>>]]
    ELSE IF join = NoJoin
        THEN [err |-> "",
              rows |-> IF limit > 0 THEN LimitExecute(AccessExecute(tabs[name], lo, where), limit)
                       ELSE AccessExecute(tabs[name], lo, where),
              schema |-> tabs[name].Def]
    ELSE IF join.Table \notin DOMAIN tabs
        THEN [err |-> "join table not found", rows |-> <<>>, schema |-> [Name |-> "", Columns |-> <<>>]]
    ELSE LET j == JoinExecute(AccessExecute(tabs[name], lo, where),
                              ScanExecute(tabs[join.Table], ro, NoWhere),
                              tabs[name].Def, tabs[join.Table].Def,
                              StripTablePrefix(join.OnLeft), StripTablePrefix(join.OnRight))
         IN [err |-> j.err,
             rows |-> IF j.err = "" /\ limit > 0 THEN LimitExecute(j.rows, limit) ELSE j.rows,
             schema |-> JoinSchema(tabs[name].Def, tabs[join.Table].Def)]

----------------------------------------------------------------------------
(* engine dispatcher: what Execute returns, and SaveTable *)

Idle == [pc |-> "idle", op |-> "", name |-> "", data |-> EmptyData, count |-> 0]

\* ResultSet / error of one Execute call: count is the number in "Updated %d rows"
\* and "Deleted %d rows", rows the rows of a SELECT.
Result(op, name, err, count, rows) ==
    [op |-> op, name |-> name, err |-> err, count |-> count, rows |-> rows]

Returns(op, name, err, count, rows) ==
    /\ last' = Result(op, name, err, count, rows)
    /\ UNCHANGED <<mu, gor>>

\* The table files of the data directory (the temp file is no table file).
TableFiles == (DOMAIN disk) \ {TempName}

\* One more crash or I/O failure, within the model's budget.
Fault == faults < MaxFaults /\ faults' = faults + 1

\* What a statement returns once SaveTable has returned saveErr: execCreate and
\* execInsert return the error, execUpdate and execDelete drop it.
AfterSave(op, name, saveErr, count) ==
    IF op \in {"create", "insert"}
    THEN Result(op, name, saveErr, 0, <<>>)
    ELSE Result(op, name, "", count, <<>>)

SaveErrors == {"failed to create temp file", "failed to encode table", "failed to rename temp file"}

\* SaveTable as one step of the calling statement: the snapshot is written to the
\* table's file, or one of the three I/O steps fails and the file stays as it was.
SaveTable(op, t, count) ==
    /\ UNCHANGED <<save, mu, gor>>
    /\ \/ /\ \E snapshot \in Snapshots(t) :
                disk' = MapSet(disk, t.Def.Name, CompleteFile(Serialize(t, snapshot)))
          /\ last' = AfterSave(op, t.Def.Name, "", count)
          /\ UNCHANGED faults
       \/ /\ Fault
          /\ \E e \in SaveErrors : last' = AfterSave(op, t.Def.Name, e, count)
          /\ UNCHANGED disk

\* SaveTable, the file the encoder writes: the temp file os.CreateTemp made.
\* (EncodeInPlace is the faulty variant that writes the table's file directly.)
EncodeInPlace(finalName) == finalName
EncodeTarget(finalName) == TempName

\* SaveTable step by step.  It starts with the snapshot taken and the
\* SerializableTable built; the calling statement has not returned yet.
BeginSave(op, t, count) ==
    /\ \E snapshot \in Snapshots(t) :
          save' = [pc |-> "create", op |-> op, name |-> t.Def.Name,
                   data |-> Serialize(t, snapshot), count |-> count]
    /\ UNCHANGED <<disk, last, faults, mu, gor>>

\* A step of SaveTable fails with error e: SaveTable returns it to the statement.
SaveFails(e) ==
    /\ Fault
    /\ last' = AfterSave(save.op, save.name, e, save.count)
    /\ save' = Idle
    /\ UNCHANGED <<mu, gor>>

\* os.CreateTemp: an empty file, or an error.
SaveCreateTemp ==
    /\ save.pc = "create"
    /\ \/ /\ disk' = MapSet(disk, EncodeTarget(save.name), PartialFile)
          /\ save' = [save EXCEPT !.pc = "encode"]
          /\ UNCHANGED <<tables, last, faults, mu, gor>>
       \/ /\ SaveFails("failed to create temp file")
          /\ UNCHANGED <<tables, disk>>

\* encoder.Encode and Close: the whole document is in the file, or Encode fails
\* and the deferred os.Remove deletes what was written.
SaveEncode ==
    /\ save.pc = "encode"
    /\ \/ /\ disk' = MapSet(disk, EncodeTarget(save.name), CompleteFile(save.data))
          /\ save' = [save EXCEPT !.pc = "rename"]
          /\ UNCHANGED <<tables, last, faults, mu, gor>>
       \/ /\ SaveFails("failed to encode table")
          /\ disk' = MapDelete(disk, EncodeTarget(save.name))
          /\ UNCHANGED tables

\* os.Rename: the temp file becomes the table's file, or the rename fails and
\* the deferred os.Remove deletes the temp file.
SaveRename ==
    /\ save.pc = "rename"
    /\ \/ /\ disk' = MapSet(MapDelete(disk, EncodeTarget(save.name)), save.name,
                           disk[EncodeTarget(save.name)])
          /\ last' = AfterSave(save.op, save.name, "", save.count)
          /\ save' = Idle
          /\ UNCHANGED <<tables, faults, mu, gor>>
       \/ /\ SaveFails("failed to rename temp file")
          /\ disk' = MapDelete(disk, EncodeTarget(save.name))
          /\ UNCHANGED tables

\* The statement's call of SaveTable: taken in one step, or started step by step.
Persist(stepwise, op, t, count) ==
    IF stepwise THEN BeginSave(op, t, count) ELSE SaveTable(op, t, count)

\* Engine.execCreate
ExecCreateWith(name, stepwise) ==
    /\ save.pc = "idle"
    /\ IF name \in DOMAIN tables
         THEN /\ Returns("create", name, "table already exists", 0, <<>>)
              /\ UNCHANGED <<tables, disk, save, faults>>
       ELSE IF ~HasPrimaryKey([Name |-> name, Columns |-> CreateColumns(name)])
         THEN /\ Returns("create", name, "table must have a primary key", 0, <<>>)
              /\ UNCHANGED <<tables, disk, save, faults>>
       ELSE /\ tables' = MapSet(tables, name, NewTable([Name |-> name, Columns |-> CreateColumns(name)]))
            /\ Persist(stepwise, "create", NewTable([Name |-> name, Columns |-> CreateColumns(name)]), 0)

ExecCreate(name) == ExecCreateWith(name, FALSE)

\* Engine.execInsert, the table it works on: the resident one, else the one
\* LoadTable reads from the table's file.
ResolveForInsert(name) ==
    IF name \in DOMAIN tables THEN [err |-> "", t |-> tables[name]] ELSE LoadTable(disk, name)

\* Engine.execInsert
ExecInsertWith(name, values, stepwise) ==
    /\ save.pc = "idle"
    /\ IF ResolveForInsert(name).err # ""
         THEN /\ Returns("insert", name, "table not found", 0, <<>>)
              /\ UNCHANGED <<tables, disk, save, faults>>
       ELSE LET t == ResolveForInsert(name).t
                r == TableInsert(t, values, AppendCap(Len(values)))
            IN IF r.err # ""
                 THEN /\ tables' = MapSet(tables, name, r.t)
                      /\ Returns("insert", name, r.err, 0, <<>>)
                      /\ UNCHANGED <<disk, save, faults>>
               ELSE /\ Cardinality(DOMAIN t.Rows) < MaxRows
                    /\ tables' = MapSet(tables, name, r.t)
                    /\ Persist(stepwise, "insert", r.t, 0)

ExecInsert(name, values) == ExecInsertWith(name, values, FALSE)

\* An applyUpdate that reports success and stores nothing.
ApplyUpdateKeepsRow(t, row, col, val, pk) == [err |-> "", t |-> t]

\* Engine.applyUpdate: a copy of the row with the SET cell replaced, handed to
\* Table.Update under the key the row was found by.
ApplyUpdate(t, row, col, val, pk) ==
    IF GetColumnIndex(t.Def, col) = 0 THEN [err |-> "column not found", t |-> t]
    ELSE TableUpdate(t, MkValue(t.Def.Columns[PrimaryKeyIndex(t.Def)].Type, pk),
                     [row.Values EXCEPT ![GetColumnIndex(t.Def, col)] = val])

\* execUpdate / execDelete: a single "=" comparison on a column flagged primary
\* is resolved through the row map, keyed by the literal's raw value.
UsesPkLookup(t, where) ==
    /\ where.kind = "cmp"
    /\ where.Operator = "="
    /\ HasColumn(t.Def, where.Column)
    /\ GetColumn(t.Def, where.Column).IsPrimary

\* Table.Scan as the statements use it: the keys of the rows satisfying WHERE.
MatchingKeys(t, where) == {pk \in DOMAIN t.Rows : Evaluate(where, t.Rows[pk], t.Def)}

\* execUpdate, the loop over keysToUpdate: the first error ends the statement.
RECURSIVE UpdateKeys(_, _, _, _, _, _)
UpdateKeys(t, keys, i, col, val, count) ==
    IF i > Len(keys) THEN [err |-> "", t |-> t, count |-> count]
    ELSE IF ~GetRow(t, keys[i]).ok THEN UpdateKeys(t, keys, i + 1, col, val, count)
    ELSE LET r == ApplyUpdate(t, GetRow(t, keys[i]).row, col, val, keys[i])
         IN IF r.err # "" THEN [err |-> r.err, t |-> r.t, count |-> count]
            ELSE UpdateKeys(r.t, keys, i + 1, col, val, count + 1)

\* execUpdate, the rows it visits: the one row of the key lookup (none when the
\* key is absent), or the scan's keys in the order the map range gave them.
UpdateKeyLists(t, where) ==
    IF UsesPkLookup(t, where)
    THEN {IF GetRow(t, where.Value.Val).ok THEN <<where.Value.Val>> ELSE <<>>}
    ELSE Orders(MatchingKeys(t, where))

\* Engine.execUpdate
ExecUpdateWith(name, col, val, where, stepwise) ==
    /\ save.pc = "idle"
    /\ IF name \notin DOMAIN tables
         THEN /\ Returns("update", name, "table not found", 0, <<>>)
              /\ UNCHANGED <<tables, disk, save, faults>>
       ELSE \E keys \in UpdateKeyLists(tables[name], where) :
            LET r == UpdateKeys(tables[name], keys, 1, col, val, 0)
            IN /\ tables' = MapSet(tables, name, r.t)
               /\ IF r.err # ""
                    THEN /\ Returns("update", name, r.err, 0, <<>>)
                         /\ UNCHANGED <<disk, save, faults>>
                  ELSE Persist(stepwise, "update", r.t, r.count)

ExecUpdate(name, col, val, where) == ExecUpdateWith(name, col, val, where, FALSE)

\* execDelete, the loop over keysToDelete: a failed Table.Delete is skipped.
RECURSIVE DeleteKeys(_, _, _, _)
DeleteKeys(t, keys, i, count) ==
    IF i > Len(keys) THEN [t |-> t, count |-> count]
    ELSE LET r == TableDelete(t, MkValue(t.Def.Columns[PrimaryKeyIndex(t.Def)].Type, keys[i]))
         IN IF r.err = "" THEN DeleteKeys(r.t, keys, i + 1, count + 1)
            ELSE DeleteKeys(r.t, keys, i + 1, count)

DeleteKeyLists(t, where) ==
    IF UsesPkLookup(t, where) THEN {<<where.Value.Val>>} ELSE Orders(MatchingKeys(t, where))

\* Engine.execDelete
ExecDeleteWith(name, where, stepwise) ==
    /\ save.pc = "idle"
    /\ IF name \notin DOMAIN tables
         THEN /\ Returns("delete", name, "table not found", 0, <<>>)
              /\ UNCHANGED <<tables, disk, save, faults>>
       ELSE \E keys \in DeleteKeyLists(tables[name], where) :
            LET r == DeleteKeys(tables[name], keys, 1, 0)
            IN /\ tables' = MapSet(tables, name, r.t)
               /\ Persist(stepwise, "delete", r.t, r.count)

ExecDelete(name, where) == ExecDeleteWith(name, where, FALSE)

\* Engine.Execute for a SELECT: plan, execute, project.
ExecSelect(fields, name, join, where, limit) ==
    /\ save.pc = "idle"
    /\ \E lo \in Orders(IF name \in DOMAIN tables THEN DOMAIN tables[name].Rows ELSE {}),
          ro \in Orders(IF join.Table \in DOMAIN tables THEN DOMAIN tables[join.Table].Rows ELSE {}) :
        LET p == PlanExecute(tables, name, join, where, limit, lo, ro)
        IN IF p.err # "" THEN Returns("select", name, p.err, 0, <<>>)
           ELSE Returns("select", name, ProjectResult(p.rows, p.schema, fields).err, 0,
                        ProjectResult(p.rows, p.schema, fields).rows)
    /\ UNCHANGED <<tables, disk, save, faults>>

\* The process ends, at any point of a statement, and a new one starts
\* (NewEngine: no table resident).  The files stay as they are, a temp file
\* included: the deferred os.Remove does not run.
Restart ==
    /\ Fault
    /\ tables' = EmptyMap
    /\ save' = Idle
    /\ Returns("restart", "", "", 0, <<>>)
    /\ UNCHANGED disk

----------------------------------------------------------------------------
(* The specification: statements run one at a time, each to its return *)

\* Goroutines that call the methods of one table at the same time.
MaxGoroutines == 3
Goroutines == 1..MaxGoroutines

\* A sync.RWMutex nobody holds, and a goroutine that is in no method.
Unlocked == [writer |-> FALSE, readers |-> 0]
Resting == [pc |-> "idle", op |-> "", after |-> NewTable([Name |-> "", Columns |-> <<>>])]

Init ==
    /\ tables = EmptyMap
    /\ disk = EmptyMap
    /\ save = Idle
    /\ last = Result("start", "", "", 0, <<>>)
    /\ faults = 0
    /\ mu = Unlocked
    /\ gor = [g \in Goroutines |-> Resting]

\* The model's bound on tables: a CREATE that would make one more is not submitted.
Room(name, max) == Cardinality(DOMAIN tables \cup TableFiles \cup {name}) <= max

Next ==
    \/ \E name \in TableNames : Room(name, MaxTables) /\ ExecCreate(name)
    \/ \E name \in DmlNames : \E values \in InsertValues(name) : ExecInsert(name, values)
    \/ \E name \in UpdateNames :
         \E set \in Assignments(name), where \in UpdateWheres(name) :
            ExecUpdate(name, set[1], set[2], where)
    \/ \E name \in DmlNames : \E where \in Wheres(name) : ExecDelete(name, where)
    \/ \E name \in DmlNames : \E where \in Wheres(name) \cup {NoWhere} :
            ExecSelect(<<"*">>, name, NoJoin, where, 0)
    \/ Restart

Spec == Init /\ [][Next]_vars

----------------------------------------------------------------------------
(* The persistence specification: statements on one table, SaveTable taken   *)
(* step by step, with a failure or the end of the process at any step        *)

SaveWheres == {Cmp("id", NumberLiteral(1)), Cmp("user_id", NumberLiteral(1))}

NextSave ==
    \/ Room("orders", MaxTables) /\ ExecCreateWith("orders", TRUE)
    \/ \E values \in InsertValues("orders") : ExecInsertWith("orders", values, TRUE)
    \/ \E where \in SaveWheres : ExecUpdateWith("orders", "user_id", NumberLiteral(2), where, TRUE)
    \/ \E where \in SaveWheres : ExecDeleteWith("orders", where, TRUE)
    \/ SaveCreateTemp
    \/ SaveEncode
    \/ SaveRename
    \/ Restart

SpecSave == Init /\ [][NextSave]_vars

----------------------------------------------------------------------------
(* The join specification: two tables, inserts and SELECT ... JOIN           *)

JoinInserts(name) ==
    IF name = "users"
    THEN {<<NumberLiteral(i), StringLiteral(n), StringLiteral("a"), NumberLiteral(1), StringLiteral("a")>> :
            i \in {1, 2}, n \in {"a", "b"}}
    ELSE {<<NumberLiteral(i), NumberLiteral(u)>> : i \in {1, 2}, u \in {1, 2}}

Join(table, onLeft, onRight) == [Table |-> table, OnLeft |-> onLeft, OnRight |-> onRight]

\* The FROM ... JOIN ... ON clauses submitted.
JoinSelects ==
    {<<"users", Join("orders", "users.id", "orders.user_id")>>,
     <<"orders", Join("users", "orders.user_id", "users.id")>>,
     <<"users", Join("orders", "users.name", "orders.user_id")>>}

NextJoin ==
    \/ \E name \in {"users", "orders"} : Room(name, MaxJoinTables) /\ ExecCreate(name)
    \/ \E name \in {"users", "orders"} : \E values \in JoinInserts(name) : ExecInsert(name, values)
    \/ \E q \in JoinSelects : ExecSelect(<<"*">>, q[1], q[2], NoWhere, 0)
    \/ Restart

SpecJoin == Init /\ [][NextJoin]_vars

----------------------------------------------------------------------------
(* parser/tokenizer.go: the tokens of a WHERE clause and the LIMIT clause     *)

\* LookupIdent: keywords are matched on the upper-cased text, the token keeps
\* the text as written.
LookupIdent(ident) ==
    CASE ident \in {"WHERE", "where"} -> "TokenWhere"
      [] ident \in {"AND", "and"} -> "TokenAnd"
      [] OTHER -> "TokenIdent"

\* The tokens NextToken produces: a word, a number, a quoted string, "=".
IdentToken(text) == [Type |-> LookupIdent(text), Literal |-> text]
NumberToken(digits) == [Type |-> "TokenNumber", Literal |-> digits]
StringToken(text) == [Type |-> "TokenString", Literal |-> text]
EqualToken == [Type |-> "TokenEqual", Literal |-> "="]
EOFToken == [Type |-> "TokenEOF", Literal |-> ""]

\* The token at position i of the input: past the end the tokenizer gives EOF.
TokenAt(toks, i) == IF i \in 1..Len(toks) THEN toks[i] ELSE EOFToken

\* strconv.Atoi on the digit strings of the model.
Atoi(digits) ==
    CASE digits = "0" -> 0 [] digits = "1" -> 1 [] digits = "2" -> 2 [] digits = "3" -> 3

\* Parser.parseValue on the current token: [err, val].
ParseValue(tok) ==
    IF tok.Type = "TokenNumber" THEN [err |-> "", val |-> NumberLiteral(Atoi(tok.Literal))]
    ELSE IF tok.Type = "TokenString" THEN [err |-> "", val |-> StringLiteral(tok.Literal)]
    ELSE [err |-> "unexpected value type", val |-> NumberLiteral(0)]

\* Parser.parseComparison with the current token at position cur: [err, expr, cur],
\* cur the position of the current token when it returns.
ParseComparison(toks, cur) ==
    IF TokenAt(toks, cur).Type # "TokenIdent"
        THEN [err |-> "expected column name", expr |-> NoWhere, cur |-> cur]
    ELSE IF TokenAt(toks, cur + 1).Type # "TokenEqual"
        THEN [err |-> "expected next token to be =", expr |-> NoWhere, cur |-> cur]
    ELSE IF ParseValue(TokenAt(toks, cur + 2)).err # ""
        THEN [err |-> ParseValue(TokenAt(toks, cur + 2)).err, expr |-> NoWhere, cur |-> cur + 2]
    ELSE [err |-> "",
          expr |-> Cmp(TokenAt(toks, cur).Literal, ParseValue(TokenAt(toks, cur + 2)).val),
          cur |-> cur + 2]

\* Parser.parseExpression: a comparison, then the loop over AND.  On AND the
\* loop advances ONCE, so AND is the current token when the right-hand side is
\* parsed; the operator is the keyword's text as written.
RECURSIVE ParseExpression(_, _)
RECURSIVE ParseInfix(_, _, _)
ParseInfix(toks, left, cur) ==
    IF TokenAt(toks, cur + 1).Type # "TokenAnd" THEN [err |-> "", expr |-> left, cur |-> cur]
    ELSE LET right == ParseExpression(toks, cur + 1)
         IN IF right.err # "" THEN [err |-> right.err, expr |-> NoWhere, cur |-> right.cur]
            ELSE ParseInfix(toks, Infix(left, TokenAt(toks, cur + 1).Literal, right.expr), right.cur)

ParseExpression(toks, cur) ==
    IF ParseComparison(toks, cur).err # "" THEN ParseComparison(toks, cur)
    ELSE ParseInfix(toks, ParseComparison(toks, cur).expr, ParseComparison(toks, cur).cur)

\* Parser.parseWhere, called with WHERE as the current token (position 1 of the
\* clause); a statement without the clause has Where = nil.
ParseWhere(toks) ==
    IF toks = <<>> THEN [err |-> "", expr |-> NoWhere, cur |-> 0]
    ELSE ParseExpression(toks, 2)

\* parseSelect, the LIMIT clause: absent (<<>>) leaves stmt.Limit at its zero
\* value, LIMIT n (<<digits>>) sets it to n.
StmtLimit(clause) == IF clause = <<>> THEN 0 ELSE Atoi(clause[1])

----------------------------------------------------------------------------
(* engine/planner.go: the plan nodes under a context that may be cancelled    *)

\* ctx.Err() once the context is cancelled.
Canceled == "context canceled"

\* A context is modelled by its budget: the number of checks of the context
\* (<-ctx.Done() or ctx.Err()) that still find it live; a check at budget 0
\* finds it cancelled, and so does every later one.

\* ScanNode.Execute, the yield callback over the rows in map-range order: a
\* check per row visited, which stops the scan once the context is cancelled.
RECURSIVE ScanLoop(_, _, _, _, _, _)
ScanLoop(rows, where, def, i, budget, results) ==
    IF i > Len(rows) THEN [results |-> results, budget |-> budget]
    ELSE IF budget = 0 THEN [results |-> results, budget |-> 0]
    ELSE ScanLoop(rows, where, def, i + 1, budget - 1,
                  IF Evaluate(where, rows[i], def) THEN Append(results, rows[i]) ELSE results)

\* A scan that hands back what it collected whatever the context says.
ScanReturnsCollected(results, budget) ==
    [err |-> "", rows |-> results, budget |-> IF budget = 0 THEN 0 ELSE budget - 1]

\* ScanNode.Execute, after the scan: ctx.Err() decides between (nil, err) and
\* the collected rows.
ScanReturn(results, budget) ==
    IF budget = 0 THEN [err |-> Canceled, rows |-> <<>>, budget |-> 0]
    ELSE [err |-> "", rows |-> results, budget |-> budget - 1]

\* ScanNode.Execute: [err, rows, budget].
ScanExecuteCtx(t, order, where, budget) ==
    ScanReturn(ScanLoop(RowsInOrder(t, order), where, t.Def, 1, budget, <<>>).results,
               ScanLoop(RowsInOrder(t, order), where, t.Def, 1, budget, <<>>).budget)

\* IndexScanNode.Execute: one check, before the lookup.
IndexScanExecuteCtx(t, indexName, val, budget) ==
    IF budget = 0 THEN [err |-> Canceled, rows |-> <<>>, budget |-> 0]
    ELSE [err |-> "", rows |-> IndexScanExecute(t, indexName, val), budget |-> budget - 1]

\* The access path planSelect builds for the FROM table, executed under the context.
AccessExecuteCtx(t, order, where, budget) ==
    IF UsesIndexScan(t, where) THEN IndexScanExecuteCtx(t, where.Column, where.Value, budget)
    ELSE ScanExecuteCtx(t, order, where, budget)

\* JoinNode.Execute on the results of its inputs (the left one executed first,
\* the right one with the budget the left one leaves): an input's error is
\* returned as it is; the nested loop checks the context once per left row.
JoinExecuteCtx(l, r, lSchema, rSchema, leftCol, rightCol) ==
    IF l.err # "" THEN [err |-> l.err, rows |-> <<>>, budget |-> l.budget]
    ELSE IF r.err # "" THEN [err |-> r.err, rows |-> <<>>, budget |-> r.budget]
    ELSE IF JoinExecute(l.rows, r.rows, lSchema, rSchema, leftCol, rightCol).err # ""
        THEN [err |-> JoinExecute(l.rows, r.rows, lSchema, rSchema, leftCol, rightCol).err,
              rows |-> <<>>, budget |-> r.budget]
    ELSE IF r.budget < Len(l.rows) THEN [err |-> Canceled, rows |-> <<>>, budget |-> 0]
    ELSE [err |-> "",
          rows |-> JoinExecute(l.rows, r.rows, lSchema, rSchema, leftCol, rightCol).rows,
          budget |-> r.budget - Len(l.rows)]

\* LimitNode.Execute: the input's error is returned as it is.
LimitExecuteCtx(input, limit) ==
    IF input.err # "" THEN [err |-> input.err, rows |-> <<>>, budget |-> input.budget]
    ELSE [err |-> "", rows |-> LimitExecute(input.rows, limit), budget |-> input.budget]

\* Planner.CreatePlan for a SELECT, the error it returns: planSelect looks up the
\* FROM table and the JOIN table and nothing else; the ON columns are only
\* stripped of their table prefix and stored in the JoinNode.
CreatePlan(tabs, name, join) ==
    IF name \notin DOMAIN tabs THEN "table not found"
    ELSE IF join # NoJoin /\ join.Table \notin DOMAIN tabs THEN "join table not found"
    ELSE ""

\* CreatePlan and plan.Execute(ctx) for a SELECT: [err, rows, schema].
PlanExecuteCtx(tabs, name, join, where, limit, lo, ro, budget) ==
    IF CreatePlan(tabs, name, join) # ""
        THEN [err |-> CreatePlan(tabs, name, join), rows |-> <<>>,
              schema |-> [Name |-> "", Columns |-> <<>>]]
    ELSE LET l == AccessExecuteCtx(tabs[name], lo, where, budget)
             node == IF join = NoJoin THEN l
                     ELSE JoinExecuteCtx(l,
                             IF l.err # "" THEN l
                             ELSE ScanExecuteCtx(tabs[join.Table], ro, NoWhere, l.budget),
                             tabs[name].Def, tabs[join.Table].Def,
                             StripTablePrefix(join.OnLeft), StripTablePrefix(join.OnRight))
             top == IF limit > 0 THEN LimitExecuteCtx(node, limit) ELSE node
         IN [err |-> top.err, rows |-> top.rows,
             schema |-> IF join = NoJoin THEN tabs[name].Def
                        ELSE JoinSchema(tabs[name].Def, tabs[join.Table].Def)]

\* Engine.Execute(ctx, sql) for a SELECT: plan, execute under ctx, project.
ExecSelectCtx(fields, name, join, where, limit, budget) ==
    /\ save.pc = "idle"
    /\ \E lo \in Orders(IF name \in DOMAIN tables THEN DOMAIN tables[name].Rows ELSE {}),
          ro \in Orders(IF join.Table \in DOMAIN tables THEN DOMAIN tables[join.Table].Rows ELSE {}) :
        LET p == PlanExecuteCtx(tables, name, join, where, limit, lo, ro, budget)
        IN IF p.err # "" THEN Returns("select", name, p.err, 0, <<>>)
           ELSE Returns("select", name, ProjectResult(p.rows, p.schema, fields).err, 0,
                        ProjectResult(p.rows, p.schema, fields).rows)
    /\ UNCHANGED <<tables, disk, save, faults>>

----------------------------------------------------------------------------
(* Engine.Execute on statements whose WHERE clause is given as text           *)

\* Engine.Execute, a statement the parser rejects: nothing but the error.
ParseError(op, name) ==
    /\ save.pc = "idle"
    /\ Returns(op, name, "parse error", 0, <<>>)
    /\ UNCHANGED <<tables, disk, save, faults>>

\* Engine.Execute(ctx, "SELECT * FROM name [JOIN ...] [WHERE ...] [LIMIT n]")
ExecuteSelect(name, join, whereToks, limitClause, budget) ==
    IF ParseWhere(whereToks).err # "" THEN ParseError("select", name)
    ELSE ExecSelectCtx(<<"*">>, name, join, ParseWhere(whereToks).expr,
                       StmtLimit(limitClause), budget)

\* A parser of UPDATE and DELETE that takes the WHERE clause as optional.
ParseOptionalWhere(op, toks) == ParseWhere(toks)

\* parseUpdate / parseDelete, from the token after the table name or the SET
\* value: expectPeek(TokenWhere) fails when the statement ends there.
ParseRequiredWhere(op, toks) ==
    IF toks = <<>> THEN [err |-> op \o " requires WHERE", expr |-> NoWhere, cur |-> 0]
    ELSE ParseWhere(toks)

\* Engine.Execute, the return on a statement the parser rejects for its
\* missing WHERE clause.
RequiresWhere(op, name, err) ==
    /\ save.pc = "idle"
    /\ Returns(op, name, err, 0, <<>>)
    /\ UNCHANGED <<tables, disk, save, faults>>

\* Engine.Execute(ctx, "UPDATE name SET col = val [WHERE ...]"): the context
\* (budget) is not handed to execUpdate, which has no parameter for it.
ExecuteUpdate(name, col, val, whereToks, budget) ==
    IF whereToks = <<>> /\ ParseRequiredWhere("UPDATE", whereToks).err # ""
    THEN RequiresWhere("update", name, ParseRequiredWhere("UPDATE", whereToks).err)
    ELSE IF ParseRequiredWhere("UPDATE", whereToks).err # "" THEN ParseError("update", name)
    ELSE ExecUpdate(name, col, val, ParseRequiredWhere("UPDATE", whereToks).expr)

\* Engine.Execute(ctx, "DELETE FROM name [WHERE ...]"): execDelete is called
\* without the context as well.
ExecuteDelete(name, whereToks, budget) ==
    IF whereToks = <<>> /\ ParseRequiredWhere("DELETE", whereToks).err # ""
    THEN RequiresWhere("delete", name, ParseRequiredWhere("DELETE", whereToks).err)
    ELSE IF ParseRequiredWhere("DELETE", whereToks).err # "" THEN ParseError("delete", name)
    ELSE ExecDelete(name, ParseRequiredWhere("DELETE", whereToks).expr)

----------------------------------------------------------------------------
(* The query specification: two tables, statements with WHERE as text, LIMIT  *)
(* and a context cancelled at any of its checks                               *)

MaxLimit == 2

\* The checks of the context the largest plan of the model makes: two scans
\* (a check per row and one after) and the join's check per left row.
MaxChecks == 3 * MaxRows + 2

\* context.Background(): no check finds it cancelled.
Background == MaxChecks

\* A context cancelled before the statement is submitted: its first check fails.
Cancelled == 0

\* The budgets of the contexts statements are submitted with.
Budgets == 0..MaxChecks

QueryNames == {"users", "orders"}

QueryInserts(name) ==
    IF name = "users"
    THEN {<<NumberLiteral(1), StringLiteral("a"), StringLiteral("a"), NumberLiteral(1), StringLiteral("a")>>,
          <<NumberLiteral(2), StringLiteral("b"), StringLiteral("a"), NumberLiteral(1), StringLiteral("a")>>}
    ELSE {<<NumberLiteral(1), NumberLiteral(1)>>, <<NumberLiteral(2), NumberLiteral(2)>>}

\* WHERE clauses as token lists: one comparison on the key, one on a plain
\* column, one on a column the table does not have, one on the key under its
\* table-qualified name (the tokenizer takes "." as a letter, so users.id is one
\* identifier), and two comparisons joined by AND, the keyword in either case.
WhereKey == <<IdentToken("WHERE"), IdentToken("id"), EqualToken, NumberToken("1")>>
WherePlain == <<IdentToken("WHERE"), IdentToken("email"), EqualToken, StringToken("a")>>
WhereUnknown == <<IdentToken("WHERE"), IdentToken("nosuch"), EqualToken, NumberToken("1")>>
WhereQualified == <<IdentToken("WHERE"), IdentToken("users.id"), EqualToken, NumberToken("1")>>
AndWheres ==
    {<<IdentToken("WHERE"), IdentToken("id"), EqualToken, NumberToken("1"),
       IdentToken(kw), IdentToken("email"), EqualToken, StringToken("a")>> : kw \in {"AND", "and"}}

\* The SELECT statements submitted under context.Background():
\* <<FROM table, JOIN clause, WHERE clause>>.
QuerySelects ==
    {<<"users", NoJoin, w>> :
        w \in {<<>>, WhereKey, WherePlain, WhereUnknown, WhereQualified} \cup AndWheres}
    \cup {<<"users", Join("orders", "users.id", "orders.user_id"), <<>>>>}

\* The SELECT statements submitted under a context that may be cancelled: a
\* scan, an index lookup, a join of two scans under LIMIT, and a join on a
\* column the right table does not have:
\* <<FROM table, JOIN clause, WHERE clause, LIMIT clause>>.
CancelSelects ==
    {<<"users", NoJoin, <<>>, <<>>>>, <<"users", NoJoin, WhereKey, <<>>>>,
     <<"users", Join("orders", "users.id", "orders.user_id"), <<>>, <<"2">>>>,
     <<"users", Join("orders", "users.id", "orders.nosuch"), <<>>, <<>>>>}

\* The LIMIT clauses submitted: none, and LIMIT n for n in 0..MaxLimit.
LimitDigits == {d \in {"0", "1", "2", "3"} : Atoi(d) <= MaxLimit}
LimitClauses == {<<>>} \cup {<<d>> : d \in LimitDigits}

\* The WHERE clauses of the UPDATE and DELETE statements submitted.
DmlWheres == {<<>>, WhereKey, WherePlain} \cup AndWheres

NextQuery ==
    \/ \E name \in QueryNames : Room(name, MaxJoinTables) /\ ExecCreate(name)
    \/ \E name \in QueryNames : \E values \in QueryInserts(name) : ExecInsert(name, values)
    \/ \E q \in QuerySelects, limit \in LimitClauses :
            ExecuteSelect(q[1], q[2], q[3], limit, Background)
    \/ \E q \in CancelSelects, budget \in Budgets :
            ExecuteSelect(q[1], q[2], q[3], q[4], budget)
    \/ \E w \in DmlWheres, budget \in {Cancelled, Background} :
            ExecuteUpdate("users", "name", StringLiteral("b"), w, budget)
    \/ \E w \in DmlWheres, budget \in {Cancelled, Background} : ExecuteDelete("users", w, budget)

SpecQuery == Init /\ [][NextQuery]_vars

----------------------------------------------------------------------------
(* The projection specification: SELECT statements with a field list          *)

\* The field lists of the SELECT statements submitted with one: plain and
\* table-qualified names in an order that is not the schema's, a name that is
\* in both tables of a join, a name that is in no table, and a list with "*".
FieldLists ==
    {<<"name", "id">>, <<"orders.id", "users.name">>, <<"user_id", "users.id">>,
     <<"nosuch">>, <<"id", "nosuch">>, <<"nosuch", "*">>}

\* The FROM clauses the field lists are submitted on.
FieldSelects ==
    {<<"users", NoJoin>>,
     <<"users", Join("orders", "users.id", "orders.user_id")>>,
     <<"orders", Join("users", "orders.user_id", "users.id")>>}

NextProject ==
    \/ \E name \in QueryNames : Room(name, MaxJoinTables) /\ ExecCreate(name)
    \/ \E name \in QueryNames : \E values \in QueryInserts(name) : ExecInsert(name, values)
    \/ \E q \in FieldSelects, fields \in FieldLists : ExecSelect(fields, q[1], q[2], NoWhere, 0)

SpecProject == Init /\ [][NextProject]_vars

----------------------------------------------------------------------------
(* The persistence specification: one table, UPDATE and DELETE by key and by  *)
(* scan, the UPDATE to a name held by no row or by one                        *)

\* The names the UPDATE statements set.
SyncNames == {"b", "c"}

NextSync ==
    \/ Room("users", MaxTables) /\ ExecCreate("users")
    \/ \E values \in QueryInserts("users") : ExecInsert("users", values)
    \/ \E n \in SyncNames, w \in {WhereKey, WherePlain} :
          ExecuteUpdate("users", "name", StringLiteral(n), w, Background)
    \/ \E w \in {WhereKey, WherePlain} : ExecuteDelete("users", w, Background)

SpecSync == Init /\ [][NextSync]_vars

----------------------------------------------------------------------------
(* The concurrency specification: goroutines calling the methods of one table *)
(* (storage.Table, every method under t.mu).  A method is taken in steps: the  *)
(* lock, the writes to t.Rows and to t.Indices in the order of the code, the   *)
(* deferred unlock.                                                            *)

Shared == "users"

\* The value lists Table.Insert and Table.Update are called with, the keys
\* Table.Delete is called with, and the reading methods.
ConcValues ==
    {<<NumberLiteral(i), StringLiteral(n), StringLiteral("a"), NumberLiteral(1), StringLiteral("a")>> :
        i \in {1, 2}, n \in {"a", "b"}}
ConcKeys == {NumberLiteral(1), NumberLiteral(2)}
Readers == {"GetRow", "Scan", "IndexLookup", "GetSnapshot"}

\* A reader that does not wait for the writer.
RLockAlways(m) == TRUE

\* sync.RWMutex: Lock waits until nobody holds the mutex, RLock until no writer
\* holds it.
CanLock(m) == ~m.writer /\ m.readers = 0
CanRLock(m) == ~m.writer

\* t.mu.Lock() at the head of Insert, Update and Delete; the checks of the
\* method follow under the lock, and `after` is the table it will have built
\* when it returns (the table as it is when the method returns an error).
Lock(g, op, r) ==
    /\ gor[g].pc = "idle"
    /\ CanLock(mu)
    /\ mu' = [mu EXCEPT !.writer = TRUE]
    /\ gor' = [gor EXCEPT ![g] = [pc |-> IF r.err = "" THEN "locked" ELSE "done",
                                   op |-> op, after |-> r.t]]
    /\ UNCHANGED <<tables, disk, save, last, faults>>

LockInsert(g, values) ==
    Lock(g, "Insert", TableInsert(tables[Shared], values, AppendCap(Len(values))))
LockUpdate(g, values) ==
    Lock(g, "Update", TableUpdate(tables[Shared], values[PrimaryKeyIndex(tables[Shared].Def)], values))
LockDelete(g, pk) == Lock(g, "Delete", TableDelete(tables[Shared], pk))

\* The first write of a method: Insert stores the row (t.Rows[pk] = ...) before
\* it sets the index entries; Delete and Update change the index entries before
\* they delete or replace the row.
WriteFirst(g) ==
    /\ gor[g].pc = "locked"
    /\ tables' = MapSet(tables, Shared,
                        IF gor[g].op = "Insert"
                        THEN [tables[Shared] EXCEPT !.Rows = gor[g].after.Rows]
                        ELSE [tables[Shared] EXCEPT !.Indices = gor[g].after.Indices])
    /\ gor' = [gor EXCEPT ![g].pc = "half"]
    /\ UNCHANGED <<disk, save, last, faults, mu>>

\* The second write of a method, after which the table is as the method leaves it.
WriteSecond(g) ==
    /\ gor[g].pc = "half"
    /\ tables' = MapSet(tables, Shared, gor[g].after)
    /\ gor' = [gor EXCEPT ![g].pc = "done"]
    /\ UNCHANGED <<disk, save, last, faults, mu>>

\* defer t.mu.Unlock()
Unlock(g) ==
    /\ gor[g].pc = "done"
    /\ mu' = [mu EXCEPT !.writer = FALSE]
    /\ gor' = [gor EXCEPT ![g] = Resting]
    /\ UNCHANGED <<tables, disk, save, last, faults>>

\* t.mu.RLock() at the head of GetRow, Scan, IndexLookup and GetSnapshot: the
\* method then reads t.Rows or t.Indices as they are.
RLock(g, op) ==
    /\ gor[g].pc = "idle"
    /\ CanRLock(mu)
    /\ mu' = [mu EXCEPT !.readers = @ + 1]
    /\ gor' = [gor EXCEPT ![g] = [Resting EXCEPT !.pc = "reading", !.op = op]]
    /\ UNCHANGED <<tables, disk, save, last, faults>>

\* defer t.mu.RUnlock()
RUnlock(g) ==
    /\ gor[g].pc = "reading"
    /\ mu' = [mu EXCEPT !.readers = @ - 1]
    /\ gor' = [gor EXCEPT ![g] = Resting]
    /\ UNCHANGED <<tables, disk, save, last, faults>>

\* storage.NewTable has built the table; no goroutine has called it yet.
InitConc ==
    /\ tables = MapSet(EmptyMap, Shared, NewTable([Name |-> Shared, Columns |-> UsersColumns]))
    /\ disk = EmptyMap
    /\ save = Idle
    /\ last = Result("start", "", "", 0, <<>>)
    /\ faults = 0
    /\ mu = Unlocked
    /\ gor = [g \in Goroutines |-> Resting]

NextConc ==
    \E g \in Goroutines :
        \/ \E values \in ConcValues : LockInsert(g, values)
        \/ \E values \in ConcValues : LockUpdate(g, values)
        \/ \E pk \in ConcKeys : LockDelete(g, pk)
        \/ WriteFirst(g)
        \/ WriteSecond(g)
        \/ Unlock(g)
        \/ \E op \in Readers : RLock(g, op)
        \/ RUnlock(g)

SpecConc == InitConc /\ [][NextConc]_vars

----------------------------------------------------------------------------
(* The engine under concurrent callers: every caller is one call of           *)
(* Engine.Execute in its own goroutine (a request handler of cmd/web), all on  *)
(* one Engine and one table name.  A step is one access to shared state: a     *)
(* read or write of the map e.Tables (which no lock guards), one method of     *)
(* storage.Table (atomic, being under t.mu from its first line to its return), *)
(* a read of the table's file or the rename that replaces it.                  *)

MaxCallers == 2
Callers == 1..MaxCallers

\* The statements the callers execute.
Stmt(op, values, col, val, where) ==
    [op |-> op, values |-> values, col |-> col, val |-> val, where |-> where]
ExecInserts ==
    {Stmt("insert", <<NumberLiteral(v[1]), StringLiteral(v[2]), StringLiteral("a"), NumberLiteral(1),
                      StringLiteral("a")>>, "", NumberLiteral(0), NoWhere) :
        v \in {<<1, "a">>, <<2, "a">>, <<2, "b">>}}
ExecUpdates ==
    {Stmt("update", <<>>, c, StringLiteral("b"), Cmp("id", NumberLiteral(1))) : c \in {"name", "email"}}
ExecStmts ==
    {Stmt("create", <<>>, "", NumberLiteral(0), NoWhere),
     Stmt("select", <<>>, "", NumberLiteral(0), Cmp("name", StringLiteral("a")))}
    \cup ExecInserts \cup ExecUpdates

\* A pointer to a table object: nil, the object registered in e.Tables, or an
\* object that is not (or no longer) registered, kept with the caller that
\* built it or that replaced it in the map.
NilPtr == [at |-> "nil", g |-> 0]
RegPtr == [at |-> "registry", g |-> 0]
SlotPtr(g) == [at |-> "slot", g |-> g]

NoTable == NewTable([Name |-> "", Columns |-> <<>>])

\* A goroutine that has not called Execute yet.
NotCalled ==
    [pc |-> "idle", stmt |-> Stmt("", <<>>, "", NumberLiteral(0), NoWhere), ptr |-> NilPtr,
     obj |-> NoTable, pk |-> IntVal(0), row |-> Row(<<>>, 0), snap |-> EmptyData, count |-> 0,
     res |-> Result("", "", "", 0, <<>>)]

\* The table object a pointer refers to.
Obj(p) == IF p.at = "registry" THEN tables[Shared] ELSE gor[p.g].obj

\* The call returns: its locals are dropped, the statement and its result stay.
Return(g, err, count, rows) ==
    [NotCalled EXCEPT !.pc = "done", !.stmt = gor[g].stmt, !.obj = gor[g].obj,
                      !.res = Result(gor[g].stmt.op, Shared, err, count, rows)]

\* Engine.Execute(ctx, sql): the statement is parsed; its handler starts with a
\* read of e.Tables.
Call(g, stmt) ==
    /\ gor[g].pc = "idle"
    /\ gor' = [gor EXCEPT ![g] = [NotCalled EXCEPT !.pc = "lookup", !.stmt = stmt]]
    /\ UNCHANGED <<tables, disk, save, last, faults, mu>>

\* The handler's read of e.Tables[name]: execCreate returns when the name is
\* there; execInsert goes on to LoadTable when it is not; execUpdate and
\* planSelect return 'table not found'.
Lookup(g) ==
    /\ gor[g].pc = "lookup"
    /\ gor' = [gor EXCEPT ![g] =
          IF Shared \in DOMAIN tables
          THEN IF gor[g].stmt.op = "create" THEN Return(g, "table already exists", 0, <<>>)
               ELSE [gor[g] EXCEPT !.ptr = RegPtr,
                                   !.pc = CASE gor[g].stmt.op = "insert" -> "insert"
                                            [] gor[g].stmt.op = "update" -> "getrow"
                                            [] OTHER -> "indexlookup"]
          ELSE CASE gor[g].stmt.op = "create" ->
                        [gor[g] EXCEPT !.pc = "register",
                                       !.obj = NewTable([Name |-> Shared, Columns |-> UsersColumns])]
                 [] gor[g].stmt.op = "insert" -> [gor[g] EXCEPT !.pc = "load"]
                 [] OTHER -> Return(g, "table not found", 0, <<>>)]
    /\ UNCHANGED <<tables, disk, save, last, faults, mu>>

\* execInsert, storage.LoadTable(name): the table is built from the file as it
\* is now.
Load(g) ==
    /\ gor[g].pc = "load"
    /\ gor' = [gor EXCEPT ![g] =
          IF LoadTable(disk, Shared).err # "" THEN Return(g, "table not found", 0, <<>>)
          ELSE [gor[g] EXCEPT !.pc = "register", !.obj = LoadTable(disk, Shared).t]]
    /\ UNCHANGED <<tables, disk, save, last, faults, mu>>

\* e.Tables[name] = table, in execCreate and execInsert: the object the caller
\* built is registered, whatever the map holds by now.  An object it replaces
\* stays with the callers that fetched it (their pointer keeps its identity).
Register(g) ==
    /\ gor[g].pc = "register"
    /\ tables' = MapSet(tables, Shared, gor[g].obj)
    /\ gor' = [h \in DOMAIN gor |->
          IF h = g
          THEN [gor[g] EXCEPT !.ptr = RegPtr,
                              !.obj = IF \E o \in DOMAIN gor : o # g /\ gor[o].ptr = RegPtr
                                      THEN tables[Shared] ELSE NoTable,
                              !.pc = IF gor[g].stmt.op = "create" THEN "snapshot" ELSE "insert"]
          ELSE IF gor[h].ptr = RegPtr THEN [gor[h] EXCEPT !.ptr = SlotPtr(g)]
          ELSE gor[h]]
    /\ UNCHANGED <<disk, save, last, faults, mu>>

\* The table object behind the pointer p becomes t.
Store(p, t) ==
    IF p.at = "registry" THEN tables' = MapSet(tables, Shared, t) ELSE tables' = tables

\* The callers after caller g's step, when that step also made the object
\* behind g's pointer t.
Stored(g, next, t) ==
    [h \in DOMAIN gor |->
        IF gor[g].ptr.at = "slot" /\ gor[g].ptr.g = h
        THEN (IF h = g THEN [next EXCEPT !.obj = t] ELSE [gor[h] EXCEPT !.obj = t])
        ELSE IF h = g THEN next ELSE gor[h]]

\* execInsert: table.Insert(stmt.Values), then SaveTable unless it failed.
Insert(g) ==
    /\ gor[g].pc = "insert"
    /\ LET r == TableInsert(Obj(gor[g].ptr), gor[g].stmt.values, AppendCap(Len(gor[g].stmt.values)))
       IN /\ Store(gor[g].ptr, r.t)
          /\ gor' = Stored(g, IF r.err # "" THEN Return(g, r.err, 0, <<>>)
                              ELSE [gor[g] EXCEPT !.pc = "snapshot"], r.t)
    /\ UNCHANGED <<disk, save, last, faults, mu>>

\* execUpdate on the key path: table.GetRow(pkTarget) hands the caller the row
\* as it is now; with no such row the statement goes straight to SaveTable.
FetchForUpdate(g) ==
    /\ gor[g].pc = "getrow"
    /\ LET r == GetRow(Obj(gor[g].ptr), gor[g].stmt.where.Value.Val)
       IN gor' = [gor EXCEPT ![g] = IF r.ok THEN [gor[g] EXCEPT !.pc = "update", !.row = r.row]
                                    ELSE [gor[g] EXCEPT !.pc = "snapshot"]]
    /\ UNCHANGED <<tables, disk, save, last, faults, mu>>

\* execUpdate: applyUpdate copies the row it was handed, sets the SET cell and
\* calls table.Update with the copy.
Update(g) ==
    /\ gor[g].pc = "update"
    /\ LET r == ApplyUpdate(Obj(gor[g].ptr), gor[g].row, gor[g].stmt.col, gor[g].stmt.val,
                            gor[g].stmt.where.Value.Val)
       IN /\ Store(gor[g].ptr, r.t)
          /\ gor' = Stored(g, IF r.err # "" THEN Return(g, r.err, 0, <<>>)
                              ELSE [gor[g] EXCEPT !.pc = "snapshot", !.count = 1,
                                                  !.row = Row(<<>>, 0)], r.t)
    /\ UNCHANGED <<disk, save, last, faults, mu>>

\* IndexScanNode.Execute, first half: Table.IndexLookup gives a key or nothing.
IndexScanLookup(g) ==
    /\ gor[g].pc = "indexlookup"
    /\ LET r == IndexLookup(Obj(gor[g].ptr), gor[g].stmt.where.Column, gor[g].stmt.where.Value)
       IN gor' = [gor EXCEPT ![g] = IF r.ok THEN [gor[g] EXCEPT !.pc = "fetch", !.pk = r.pk]
                                    ELSE Return(g, "", 0, <<>>)]
    /\ UNCHANGED <<tables, disk, save, last, faults, mu>>

\* IndexScanNode.Execute, second half: Table.GetRow of that key, on the table as
\* it is by now; the row, if there is one, is the result.
IndexScanFetch(g) ==
    /\ gor[g].pc = "fetch"
    /\ LET r == GetRow(Obj(gor[g].ptr), gor[g].pk)
       IN gor' = [gor EXCEPT ![g] = Return(g, "", 0, IF r.ok THEN <<r.row>> ELSE <<>>)]
    /\ UNCHANGED <<tables, disk, save, last, faults, mu>>

\* SaveTable, t.GetSnapshot(): the rows of the caller's table object as they
\* are now, serialized into the caller's own temp file.
TakeSnapshot(g) ==
    /\ gor[g].pc = "snapshot"
    /\ \E snapshot \in Snapshots(Obj(gor[g].ptr)) :
          gor' = [gor EXCEPT ![g] = [gor[g] EXCEPT !.pc = "rename",
                                        !.snap = Serialize(Obj(gor[g].ptr), snapshot)]]
    /\ UNCHANGED <<tables, disk, save, last, faults, mu>>

\* SaveTable, os.Rename(tempName, finalFilename): the caller's temp file becomes
\* the table's file, and the statement returns.
Rename(g) ==
    /\ gor[g].pc = "rename"
    /\ disk' = MapSet(disk, Shared, CompleteFile(gor[g].snap))
    /\ gor' = [gor EXCEPT ![g] = Return(g, "", gor[g].count, <<>>)]
    /\ UNCHANGED <<tables, save, last, faults, mu>>

\* Two callers are at an access of e.Tables and one of them writes: the Go
\* runtime may find the map in use and end the process ("fatal error:
\* concurrent map read and map write" / "concurrent map writes").  When it does
\* not, the accesses take effect in either order (Lookup, Register).
MapRace ==
    /\ \E g, h \in DOMAIN gor :
          g # h /\ gor[g].pc = "register" /\ gor[h].pc \in {"lookup", "register"}
    /\ gor' = [g \in DOMAIN gor |-> [NotCalled EXCEPT !.pc = "fatal"]]
    /\ tables' = EmptyMap
    /\ UNCHANGED <<disk, save, last, faults, mu>>

\* The table users with the row (1, 'a', 'a', 1, 'a'), and its file.
OneRow ==
    TableInsert(NewTable([Name |-> Shared, Columns |-> UsersColumns]),
                <<NumberLiteral(1), StringLiteral("a"), StringLiteral("a"), NumberLiteral(1),
                  StringLiteral("a")>>, AppendCap(Len(UsersColumns))).t
OneRowFile == CompleteFile(Serialize(OneRow, <<OneRow.Rows[IntVal(1)]>>))

\* The engine when the callers arrive: new with an empty data directory; or
\* after CREATE TABLE users and INSERT (1, 'a', 'a', 1, 'a'), the table resident
\* and saved; or a new engine started on that data directory.
InitExec ==
    /\ \/ tables = EmptyMap /\ disk = EmptyMap
       \/ tables = MapSet(EmptyMap, Shared, OneRow) /\ disk = MapSet(EmptyMap, Shared, OneRowFile)
       \/ tables = EmptyMap /\ disk = MapSet(EmptyMap, Shared, OneRowFile)
    /\ save = Idle
    /\ last = Result("start", "", "", 0, <<>>)
    /\ faults = 0
    /\ mu = Unlocked
    /\ gor = [g \in Callers |-> NotCalled]

NextExec ==
    \/ \E g \in Callers :
          \/ \E stmt \in ExecStmts : Call(g, stmt)
          \/ Lookup(g)
          \/ Load(g)
          \/ Register(g)
          \/ Insert(g)
          \/ FetchForUpdate(g)
          \/ Update(g)
          \/ IndexScanLookup(g)
          \/ IndexScanFetch(g)
          \/ TakeSnapshot(g)
          \/ Rename(g)
    \/ MapRace

SpecExec == InitExec /\ [][NextExec]_vars

----------------------------------------------------------------------------
(* The locks under concurrent callers: what each statement does to the        *)
(* sync.RWMutex of the tables it names.  A statement is the sequence of table  *)
(* methods its handler calls, each method its lock and its deferred unlock;    *)
(* the contents of the tables enter only as the number of keys a scan has      *)
(* collected and whether a key or a row was found, which are inputs here.      *)

LockTables == {"users", "orders"}

LockOp(do, on) == [do |-> do, on |-> on]

\* GetRow, Scan, IndexLookup, GetSnapshot: t.mu.RLock(); defer t.mu.RUnlock().
\* The callbacks handed to Scan (ScanNode.Execute, execUpdate, execDelete) call
\* Evaluate and append, and no method of the table.
Read(t) == <<LockOp("RLock", t), LockOp("RUnlock", t)>>

\* Insert, Update, Delete: t.mu.Lock(); defer t.mu.Unlock().  The methods work
\* on t.Rows and the indices directly and call no other method of the table.
Write(t) == <<LockOp("Lock", t), LockOp("Unlock", t)>>

RECURSIVE Times(_, _)
Times(calls, k) == IF k = 0 THEN <<>> ELSE calls \o Times(calls, k - 1)

\* SaveTable: GetSnapshot, then file operations under no lock.
SaveCalls(t) == Read(t)

\* execCreate: NewTable, the map write, SaveTable.
CreateCalls(t) == SaveCalls(t)

\* execInsert: table.Insert, and SaveTable when it succeeded.
InsertCalls(t, ok) == Write(t) \o (IF ok THEN SaveCalls(t) ELSE <<>>)

\* execUpdate on the key path: GetRow, table.Update through applyUpdate when
\* the row exists, SaveTable unless the update failed.
UpdateKeyCalls(t, found, ok) ==
    Read(t) \o (IF found THEN Write(t) ELSE <<>>) \o (IF ok THEN SaveCalls(t) ELSE <<>>)

\* An execUpdate that updates the rows from inside the callback of its scan.
UpdateInsideScan(t, k, ok) ==
    <<LockOp("RLock", t)>> \o Times(Read(t) \o Write(t), k) \o <<LockOp("RUnlock", t)>>
    \o (IF ok THEN SaveCalls(t) ELSE <<>>)

\* execUpdate on the scan path: Scan collects k keys and returns; then GetRow
\* and table.Update for each key (up to the one that fails, when ok is FALSE),
\* then SaveTable.
UpdateScanCalls(t, k, ok) ==
    Read(t) \o Times(Read(t) \o Write(t), k) \o (IF ok THEN SaveCalls(t) ELSE <<>>)

\* execDelete: one table.Delete on the key path, or Scan and a table.Delete
\* for each of the k keys it collected; then SaveTable.
DeleteCalls(t, scan, k) ==
    (IF scan THEN Read(t) ELSE <<>>) \o Times(Write(t), IF scan THEN k ELSE 1) \o SaveCalls(t)

\* ScanNode.Execute: one Scan.  IndexScanNode.Execute: IndexLookup, and GetRow
\* when a key was found.
AccessCalls(t, index, found) ==
    IF index THEN Read(t) \o (IF found THEN Read(t) ELSE <<>>) ELSE Read(t)

\* JoinNode.Execute: the left input is executed to its end, then the right scan.
JoinCalls(l, index, found, r) == AccessCalls(l, index, found) \o Read(r)

\* The statements the callers execute, as the method calls they make.
LockPrograms ==
    {CreateCalls("users")}
    \cup {InsertCalls("users", ok) : ok \in BOOLEAN}
    \cup {UpdateKeyCalls("users", found, ok) : found \in BOOLEAN, ok \in BOOLEAN}
    \cup {UpdateScanCalls("users", k, ok) : k \in 0..MaxRows, ok \in BOOLEAN}
    \cup {DeleteCalls("users", scan, k) : scan \in BOOLEAN, k \in 0..MaxRows}
    \cup {AccessCalls(t, index, found) : t \in LockTables, index \in BOOLEAN, found \in BOOLEAN}
    \cup {JoinCalls("users", index, found, "orders") : index \in BOOLEAN, found \in BOOLEAN}
    \cup {JoinCalls("orders", FALSE, FALSE, "users")}

\* A goroutine that has not called Execute yet.
NotStarted == [pc |-> "idle", calls |-> <<>>, at |-> 0, waiting |-> FALSE]

\* The caller's next lock operation, and the number of times it holds the lock
\* of table t now.
NextOp(g) == gor[g].calls[gor[g].at]
Holds(g, t) ==
    Cardinality({i \in 1..(gor[g].at - 1) :
                    gor[g].calls[i].on = t /\ gor[g].calls[i].do \in {"Lock", "RLock"}})
    - Cardinality({i \in 1..(gor[g].at - 1) :
                    gor[g].calls[i].on = t /\ gor[g].calls[i].do \in {"Unlock", "RUnlock"}})

\* The caller after its next lock operation: at the following one, or returned
\* from Execute when that was the last.
Advance(g) ==
    IF gor[g].at = Len(gor[g].calls)
    THEN [NotStarted EXCEPT !.pc = "done"]
    ELSE [gor[g] EXCEPT !.at = @ + 1, !.waiting = FALSE]

\* sync.RWMutex: a goroutine blocked in Lock keeps new readers out.
WriterPending(t) == \E h \in DOMAIN gor : gor[h].waiting /\ NextOp(h).on = t

\* Engine.Execute on a statement.
CallLocked(g, calls) ==
    /\ gor[g].pc = "idle"
    /\ gor' = [gor EXCEPT ![g] = [pc |-> "run", calls |-> calls, at |-> 1, waiting |-> FALSE]]
    /\ UNCHANGED <<tables, disk, save, last, faults, mu>>

\* t.mu.RLock() returns.
AcquireRead(g) ==
    /\ gor[g].pc = "run" /\ NextOp(g).do = "RLock"
    /\ CanRLock(mu[NextOp(g).on]) /\ ~WriterPending(NextOp(g).on)
    /\ mu' = [mu EXCEPT ![NextOp(g).on].readers = @ + 1]
    /\ gor' = [gor EXCEPT ![g] = Advance(g)]
    /\ UNCHANGED <<tables, disk, save, last, faults>>

\* t.mu.RUnlock()
ReleaseRead(g) ==
    /\ gor[g].pc = "run" /\ NextOp(g).do = "RUnlock"
    /\ mu' = [mu EXCEPT ![NextOp(g).on].readers = @ - 1]
    /\ gor' = [gor EXCEPT ![g] = Advance(g)]
    /\ UNCHANGED <<tables, disk, save, last, faults>>

\* t.mu.Lock() is called: from now on the caller waits for the mutex.
RequestWrite(g) ==
    /\ gor[g].pc = "run" /\ NextOp(g).do = "Lock" /\ ~gor[g].waiting
    /\ gor' = [gor EXCEPT ![g].waiting = TRUE]
    /\ UNCHANGED <<tables, disk, save, last, faults, mu>>

\* t.mu.Lock() returns.
AcquireWrite(g) ==
    /\ gor[g].pc = "run" /\ NextOp(g).do = "Lock" /\ gor[g].waiting
    /\ CanLock(mu[NextOp(g).on])
    /\ mu' = [mu EXCEPT ![NextOp(g).on].writer = TRUE]
    /\ gor' = [gor EXCEPT ![g] = Advance(g)]
    /\ UNCHANGED <<tables, disk, save, last, faults>>

\* t.mu.Unlock()
ReleaseWrite(g) ==
    /\ gor[g].pc = "run" /\ NextOp(g).do = "Unlock"
    /\ mu' = [mu EXCEPT ![NextOp(g).on].writer = FALSE]
    /\ gor' = [gor EXCEPT ![g] = Advance(g)]
    /\ UNCHANGED <<tables, disk, save, last, faults>>

\* A step of caller g inside Execute.
Proceed(g) ==
    AcquireRead(g) \/ ReleaseRead(g) \/ RequestWrite(g) \/ AcquireWrite(g) \/ ReleaseWrite(g)

\* Both tables are registered, nobody holds their locks, no caller has started.
InitLocks ==
    /\ tables = [t \in LockTables |-> NewTable([Name |-> t, Columns |-> CreateColumns(t)])]
    /\ disk = EmptyMap
    /\ save = Idle
    /\ last = Result("start", "", "", 0, <<>>)
    /\ faults = 0
    /\ mu = [t \in LockTables |-> Unlocked]
    /\ gor = [g \in Callers |-> NotStarted]

NextLocks ==
    \E g \in Callers :
        \/ \E calls \in LockPrograms : CallLocked(g, calls)
        \/ AcquireRead(g)
        \/ ReleaseRead(g)
        \/ RequestWrite(g)
        \/ AcquireWrite(g)
        \/ ReleaseWrite(g)

\* The Go scheduler runs every goroutine that can run: a caller that can take
\* its next step takes it at some time.
SpecLocks == InitLocks /\ [][NextLocks]_vars /\ \A g \in Callers : WF_vars(Proceed(g))

----------------------------------------------------------------------------
(* Properties *)

\* The key column of a table: the first column flagged primary (GetPrimaryKey).
KeyCell(t, values) == values[PrimaryKeyIndex(t.Def)].Val

\* An INSERT value list that passes Table.Insert's count and type checks.
WellFormed(t, values) == Len(values) = Len(t.Def.Columns) /\ ~InsertTypeClash(t, values)

\* The index of every primary or unique column holds v -> pk exactly when the
\* live row pk holds v in that column.
IndexMatchesRows(t) ==
    \A c \in IndexedColumns(t.Def) :
        /\ c \in DOMAIN t.Indices
        /\ \A v \in DOMAIN t.Indices[c] :
              /\ t.Indices[c][v] \in DOMAIN t.Rows
              /\ t.Rows[t.Indices[c][v]].Values[GetColumnIndex(t.Def, c)].Val = v
        /\ \A pk \in DOMAIN t.Rows :
              /\ t.Rows[pk].Values[GetColumnIndex(t.Def, c)].Val \in DOMAIN t.Indices[c]
              /\ t.Indices[c][t.Rows[pk].Values[GetColumnIndex(t.Def, c)].Val] = pk

\* C1: after any sequence of statements, for every primary or unique column c of
\* every table the index of c contains v -> pk if and only if the live row with
\* key pk holds v in column c (no entry for a deleted row, and the lookup of a
\* live row's value gives that row's key).
C1_IndexRowConsistency == \A name \in DOMAIN tables : IndexMatchesRows(tables[name])

\* Every row is stored under its own key cell.
KeyedByOwnPk(t) == \A pk \in DOMAIN t.Rows : KeyCell(t, t.Rows[pk].Values) = pk

\* C2: no two live rows of a table share a primary-key value, every row is stored
\* under the key equal to its own primary-key cell, and Table.Insert of a row
\* whose primary-key value already exists returns the duplicate-key error and
\* leaves the row map and the indices as they were.
C2_PrimaryKeyUnique ==
    \A name \in DOMAIN tables :
        /\ KeyedByOwnPk(tables[name])
        /\ \A p, q \in DOMAIN tables[name].Rows :
              p # q => KeyCell(tables[name], tables[name].Rows[p].Values)
                       # KeyCell(tables[name], tables[name].Rows[q].Values)
        /\ \A values \in InsertValues(name) :
              (/\ WellFormed(tables[name], values)
               /\ \E p \in DOMAIN tables[name].Rows :
                     KeyCell(tables[name], tables[name].Rows[p].Values) = KeyCell(tables[name], values))
              => /\ TableInsert(tables[name], values, AppendCap(Len(values))).err = "duplicate primary key"
                 /\ TableInsert(tables[name], values, AppendCap(Len(values))).t = tables[name]

\* An INSERT was rejected for its key while the table held a row.
C2_Witness ==
    /\ last.op = "insert" /\ last.err = "duplicate primary key"
    /\ last.name \in DOMAIN tables
    /\ DOMAIN tables[last.name].Rows # {}

\* The unique, non-primary columns of a table.
UniqueColumns(t) ==
    {i \in 1..Len(t.Def.Columns) : t.Def.Columns[i].IsUnique /\ ~t.Def.Columns[i].IsPrimary}

\* The row an UPDATE ... SET col = val hands to Table.Update for the stored row pk.
Assigned(t, pk, col, val) == [t.Rows[pk].Values EXCEPT ![GetColumnIndex(t.Def, col)] = val]

\* C3: Table.Insert of a row, and Table.Update of a row, to a unique-column value
\* currently held by a different live row fails and changes nothing; Table.Update
\* of a row that keeps its own unique values succeeds.
C3_UniqueConstraint ==
    \A name \in DOMAIN tables :
        /\ \A values \in InsertValues(name) :
              (/\ WellFormed(tables[name], values)
               /\ \E q \in DOMAIN tables[name].Rows, i \in UniqueColumns(tables[name]) :
                     tables[name].Rows[q].Values[i].Val = values[i].Val)
              => /\ TableInsert(tables[name], values, AppendCap(Len(values))).err # ""
                 /\ TableInsert(tables[name], values, AppendCap(Len(values))).t = tables[name]
        /\ \A pk \in DOMAIN tables[name].Rows, set \in Assignments(name) :
              HasColumn(tables[name].Def, set[1]) =>
              LET t == tables[name]
                  new == Assigned(t, pk, set[1], set[2])
                  r == TableUpdate(t, MkValue(t.Def.Columns[PrimaryKeyIndex(t.Def)].Type, pk), new)
              IN /\ (\E q \in DOMAIN t.Rows \ {pk}, i \in UniqueColumns(t) :
                        /\ new[i].Val # t.Rows[pk].Values[i].Val
                        /\ t.Rows[q].Values[i].Val = new[i].Val)
                     => (r.err # "" /\ r.t = t)
                 /\ (/\ KeyCell(t, new) = pk
                     /\ \A i \in UniqueColumns(t) : new[i].Val = t.Rows[pk].Values[i].Val)
                     => (r.err = "" /\ r.t.Rows[pk].Values = new)

\* An UPDATE was rejected for a unique value another row holds, both rows live.
C3_Witness ==
    /\ last.op = "update" /\ last.err = "duplicate unique value"
    /\ last.name \in DOMAIN tables
    /\ Cardinality(DOMAIN tables[last.name].Rows) = 2

\* C4: every stored row has exactly one value per schema column, and the type tag
\* of the value in column i is the declared type of column i.
C4_TypeAligned ==
    \A name \in DOMAIN tables : \A pk \in DOMAIN tables[name].Rows :
        /\ Len(tables[name].Rows[pk].Values) = Len(tables[name].Def.Columns)
        /\ \A i \in 1..Len(tables[name].Def.Columns) :
              tables[name].Rows[pk].Values[i].Type = tables[name].Def.Columns[i].Type

\* C5: a stored row's primary-key value never changes: an UPDATE whose new row
\* differs from the stored row in the primary-key cell is rejected and leaves
\* the row map and the indices as they were; an UPDATE that succeeds leaves the
\* key set and the row's key cell as they were.
C5_PrimaryKeyImmutable ==
    \A name \in DOMAIN tables :
        \A pk \in DOMAIN tables[name].Rows, set \in Assignments(name) :
            LET t == tables[name]
                r == ApplyUpdate(t, t.Rows[pk], set[1], set[2], pk)
            IN /\ (/\ HasColumn(t.Def, set[1])
                   /\ KeyCell(t, Assigned(t, pk, set[1], set[2])) # KeyCell(t, t.Rows[pk].Values))
                  => (r.err = "updating primary key is not supported" /\ r.t = t)
               /\ r.err = "" =>
                    /\ DOMAIN r.t.Rows = DOMAIN t.Rows
                    /\ KeyCell(t, r.t.Rows[pk].Values) = KeyCell(t, t.Rows[pk].Values)

\* An UPDATE was rejected because it would change the key of a live row.
C5_Witness ==
    /\ last.op = "update" /\ last.err = "updating primary key is not supported"
    /\ last.name \in DOMAIN tables
    /\ DOMAIN tables[last.name].Rows # {}

\* The errors Table.Insert returns for a constraint.
ConstraintErrors ==
    {"column count mismatch", "type mismatch", "duplicate primary key", "duplicate unique value"}

\* The table's file holds the table's rows, in some snapshot order.
Persisted(t, dir) ==
    /\ t.Def.Name \in DOMAIN dir
    /\ \E snapshot \in Snapshots(t) : dir[t.Def.Name] = CompleteFile(Serialize(t, snapshot))

InsertStep ==
    /\ (last'.op = "insert" /\ last'.err \in ConstraintErrors) =>
          /\ disk' = disk
          /\ tables' = MapSet(tables, last'.name, ResolveForInsert(last'.name).t)
    /\ (last'.op = "insert" /\ last'.err = "") =>
          /\ last'.name \in DOMAIN tables'
          /\ Persisted(tables'[last'.name], disk')

\* C6: an INSERT that fails for a constraint (value count, value type, duplicate
\* primary key, duplicate unique value) leaves the table's rows and indices as
\* they were (as loaded from its file when it was not resident) and writes no
\* file; when an INSERT returns success the table's file holds the new rows.
C6_FailedInsertChangesNothing == [][InsertStep]_vars

\* An INSERT has failed for a unique value on a table with a stored row and a file.
C6_Witness ==
    /\ last.op = "insert" /\ last.err = "duplicate unique value"
    /\ last.name \in DOMAIN tables /\ last.name \in TableFiles
    /\ DOMAIN tables[last.name].Rows # {}

\* The table files that differ between two data directories.
ChangedFiles(dir, dir2) ==
    {name \in ((DOMAIN dir) \cup (DOMAIN dir2)) \ {TempName} :
        \/ name \notin DOMAIN dir
        \/ name \notin DOMAIN dir2
        \/ dir[name] # dir2[name]}

SaveStep ==
    /\ \A name \in (DOMAIN disk') \ {TempName} :
          disk'[name].complete /\ LoadFile(disk'[name]).err = ""
    /\ ChangedFiles(disk, disk') # {} =>
          /\ save.pc = "rename" /\ save'.pc = "idle"
          /\ ChangedFiles(disk, disk') = {save.name}
          /\ disk'[save.name] = CompleteFile(save.data)
          /\ faults' = faults

\* C7: when SaveTable fails or the process ends at any step before the rename has
\* completed (creating the temp file, encoding, renaming), the table's file is as
\* it was and readable; a table file changes only in the completed rename, to the
\* whole new document, and is never seen partially written.
C7_AtomicSave == [][SaveStep]_vars

\* The process ended while a save had its temp file written and the table's
\* earlier file in place.
C7_Witness ==
    /\ last.op = "restart"
    /\ TempName \in DOMAIN disk
    /\ "orders" \in TableFiles
    /\ disk[TempName].complete /\ disk[TempName] # disk["orders"]

\* The values of the rows of a table, by key.
RowValues(t) == [pk \in DOMAIN t.Rows |-> t.Rows[pk].Values]

\* C8: for every reachable table state, the file a completed SaveTable writes is
\* loaded by LoadTable into a table with the same schema and the same rows (INT
\* cells integers again), keyed by each row's primary key, with the primary and
\* unique indices rebuilt from the loaded rows.
C8_SaveLoadRoundTrip ==
    \A name \in DOMAIN tables : \A snapshot \in Snapshots(tables[name]) :
        LET loaded == LoadFile(CompleteFile(Serialize(tables[name], snapshot)))
        IN /\ loaded.err = ""
           /\ loaded.t.Def = tables[name].Def
           /\ RowValues(loaded.t) = RowValues(tables[name])
           /\ KeyedByOwnPk(loaded.t)
           /\ IndexMatchesRows(loaded.t)

\* The pairs of keys (left, right) whose join cells have the same type and value.
MatchingPairs(l, r, lIdx, rIdx) ==
    {pq \in (DOMAIN l.Rows) \X (DOMAIN r.Rows) :
        /\ l.Rows[pq[1]].Values[lIdx].Type = r.Rows[pq[2]].Values[rIdx].Type
        /\ l.Rows[pq[1]].Values[lIdx].Val = r.Rows[pq[2]].Values[rIdx].Val}

\* The rows are exactly one l ++ r per matching pair.
ExactJoin(rows, l, r, lIdx, rIdx) ==
    /\ Len(rows) = Cardinality(MatchingPairs(l, r, lIdx, rIdx))
    /\ \A pq \in MatchingPairs(l, r, lIdx, rIdx) :
          \E n \in 1..Len(rows) :
              rows[n].Values = l.Rows[pq[1]].Values \o r.Rows[pq[2]].Values

\* C9: SELECT * FROM R JOIN S ON R.a = S.b returns exactly one combined row r ++ s
\* for every pair of rows whose join cells are equal and of the same type, and no
\* other row; a type mismatch of the join cells is a non-match, not an error.
C9_JoinExact ==
    \A q \in JoinSelects :
        (q[1] \in DOMAIN tables /\ q[2].Table \in DOMAIN tables) =>
        \A lo \in Orders(DOMAIN tables[q[1]].Rows), ro \in Orders(DOMAIN tables[q[2].Table].Rows) :
            /\ PlanExecute(tables, q[1], q[2], NoWhere, 0, lo, ro).err = ""
            /\ ExactJoin(PlanExecute(tables, q[1], q[2], NoWhere, 0, lo, ro).rows,
                         tables[q[1]], tables[q[2].Table],
                         GetColumnIndex(tables[q[1]].Def, StripTablePrefix(q[2].OnLeft)),
                         GetColumnIndex(tables[q[2].Table].Def, StripTablePrefix(q[2].OnRight)))

\* The literals of the equality predicates compared.
ProbeLiterals == {NumberLiteral(1), NumberLiteral(2), StringLiteral("a"), StringLiteral("b")}

\* The set of rows (values) in a result.
RowSet(rows) == {rows[n].Values : n \in 1..Len(rows)}

\* C10: in every reachable table state, for every equality predicate col = literal
\* on a primary or unique column (the literal present or absent, of the column's
\* type or not), IndexScanNode and a ScanNode with Evaluate of the same comparison
\* return the same set of rows.
C10_IndexScanEqualsScan ==
    \A name \in DOMAIN tables :
        \A c \in IndexedColumns(tables[name].Def), v \in ProbeLiterals :
            \A order \in Orders(DOMAIN tables[name].Rows) :
                RowSet(IndexScanExecute(tables[name], c, v))
                = RowSet(ScanExecute(tables[name], order, Cmp(c, v)))

\* Equality of two values of the same type, as the comparison col = literal means it.
SameTypeAndEqual(cell, literal) ==
    cell.Type = literal.Type /\ Compare(cell, literal) = [cmp |-> 0, err |-> ""]

\* C11: for every row of every reachable table, every column of the table and
\* every literal, Evaluate of the comparison col = literal is TRUE exactly when
\* the row's value in that column and the literal have the same type and are
\* equal; in particular it is FALSE when the literal's type differs from the type
\* of the row's value.
C11_TypeMismatchIsFalse ==
    \A name \in DOMAIN tables :
        \A pk \in DOMAIN tables[name].Rows, i \in 1..Len(tables[name].Def.Columns) :
            \A v \in ProbeLiterals :
                i <= Len(tables[name].Rows[pk].Values) =>
                    Evaluate(Cmp(tables[name].Def.Columns[i].Name, v),
                             tables[name].Rows[pk], tables[name].Def)
                    = SameTypeAndEqual(tables[name].Rows[pk].Values[i], v)

\* The first n elements of a sequence, all of it when it is shorter.
FirstRows(rows, n) == SubSeq(rows, 1, IF n < Len(rows) THEN n ELSE Len(rows))

\* The orders a map range may give the rows of a table, none if it is not resident.
ScanOrders(name) == Orders(IF name \in DOMAIN tables THEN DOMAIN tables[name].Rows ELSE {})

\* C12: in every reachable state, for every SELECT of the workload that parses
\* and every n in 0..MaxLimit (0 included), the statement with LIMIT n returns
\* exactly the first min(n, m) rows, in order, of the m rows the statement
\* without LIMIT returns under the same scan orders.
C12_LimitReturnsFirstRows ==
    \A q \in QuerySelects, d \in LimitDigits :
        \A lo \in ScanOrders(q[1]), ro \in ScanOrders(q[2].Table) :
            ParseWhere(q[3]).err = "" =>
                PlanExecuteCtx(tables, q[1], q[2], ParseWhere(q[3]).expr,
                               StmtLimit(<<d>>), lo, ro, Background).rows
                = FirstRows(PlanExecuteCtx(tables, q[1], q[2], ParseWhere(q[3]).expr,
                                           StmtLimit(<<>>), lo, ro, Background).rows,
                            Atoi(d))

\* The rows of a resident users table that satisfy both comparisons of the
\* AND clauses submitted (id = 1 and email = 'a').
SatisfyBoth(t) ==
    {t.Rows[pk].Values : pk \in {k \in DOMAIN t.Rows :
        /\ SameTypeAndEqual(t.Rows[k].Values[GetColumnIndex(t.Def, "id")], NumberLiteral(1))
        /\ SameTypeAndEqual(t.Rows[k].Values[GetColumnIndex(t.Def, "email")], StringLiteral("a"))}}

\* One step of a statement whose WHERE clause joins two comparisons by AND: the
\* parser accepts it, and a SELECT on a resident table returns exactly the rows
\* that satisfy both comparisons.
AndStep ==
    \A w \in AndWheres :
        /\ ExecuteSelect("users", NoJoin, w, <<>>, Background) =>
              /\ last'.err # "parse error"
              /\ "users" \in DOMAIN tables => RowSet(last'.rows) = SatisfyBoth(tables["users"])
        /\ ExecuteUpdate("users", "name", StringLiteral("b"), w, Background) => last'.err # "parse error"
        /\ ExecuteDelete("users", w, Background) => last'.err # "parse error"

\* C13: every SELECT, UPDATE and DELETE whose WHERE clause has two comparisons
\* joined by AND is accepted by the parser, and the clause selects exactly the
\* rows satisfying every comparison.
C13_AndAccepted == [][AndStep]_vars

\* C14: whenever a SELECT has returned rows of a resident table, the rows are in
\* ascending order of the table's primary key, so that repeating the statement
\* on unchanged state returns them in the same order every time.
C14_SelectInKeyOrder ==
    (last.op = "select" /\ last.err = "" /\ last.name \in DOMAIN tables) =>
        \A i, j \in 1..Len(last.rows) :
            i < j => Compare(last.rows[i].Values[PrimaryKeyIndex(tables[last.name].Def)],
                             last.rows[j].Values[PrimaryKeyIndex(tables[last.name].Def)]).cmp = -1

\* The definition a CREATE TABLE statement of the workload gives.
CreateDef(name) == [Name |-> name, Columns |-> CreateColumns(name)]

\* A table file as CREATE TABLE writes it: the definition and no row.
RowlessFile(file, name) ==
    /\ file.complete
    /\ file.data.Name = name
    /\ file.data.Columns = CreateColumns(name)
    /\ file.data.Rows = <<>>

\* One step that ends with the return of a CREATE TABLE statement.
CreateStep ==
    last'.op = "create" =>
        IF last'.name \in DOMAIN tables
            THEN last'.err = "table already exists" /\ tables' = tables /\ disk' = disk
        ELSE IF \A i \in 1..Len(CreateColumns(last'.name)) : ~CreateColumns(last'.name)[i].IsPrimary
            THEN last'.err = "table must have a primary key" /\ tables' = tables /\ disk' = disk
        ELSE /\ DOMAIN tables' = DOMAIN tables \cup {last'.name}
             /\ \A other \in DOMAIN tables : tables'[other] = tables[other]
             /\ tables'[last'.name].Def = CreateDef(last'.name)
             /\ tables'[last'.name].Rows = EmptyMap
             /\ \A c \in DOMAIN tables'[last'.name].Indices : tables'[last'.name].Indices[c] = EmptyMap
             /\ \/ /\ last'.err = ""
                   /\ DOMAIN disk' = DOMAIN disk \cup {last'.name}
                   /\ \A other \in DOMAIN disk \ {last'.name} : disk'[other] = disk[other]
                   /\ RowlessFile(disk'[last'.name], last'.name)
                \/ /\ last'.err \in SaveErrors
                   /\ faults' = faults + 1
                   /\ disk' = disk

PrimaryColumns(def) == {i \in 1..Len(def.Columns) : def.Columns[i].IsPrimary}

\* C16: every registered table has exactly one primary column (a CREATE TABLE
\* that marks more than one column PRIMARY KEY registers nothing).
C16_OnePrimaryColumn ==
    \A name \in DOMAIN tables : Cardinality(PrimaryColumns(tables[name].Def)) = 1

\* C17: a SELECT, INSERT, UPDATE or DELETE on a table whose file is in the data
\* directory never returns 'table not found': a table that is persisted but not
\* resident is loaded by the first statement that names it.
C17_PersistedTableIsFound ==
    (last.op \in {"select", "insert", "update", "delete"} /\ last.name \in TableFiles)
        => last.err # "table not found"

\* The scan-based WHERE clause of the workload that may qualify several rows.
PlainWhere == ParseWhere(WherePlain).expr

\* Several rows of the users table qualify for the scan-based clause.
SeveralQualify ==
    /\ "users" \in DOMAIN tables
    /\ ~UsesPkLookup(tables["users"], PlainWhere)
    /\ Cardinality(MatchingKeys(tables["users"], PlainWhere)) >= 2

\* One step of a scan-based UPDATE or DELETE that qualifies several rows: the
\* statement returns a count and no error whatever happens to single rows, the
\* count is the number of rows it changed (for UPDATE the qualifying rows that
\* hold the SET value afterwards, for DELETE the rows gone), and unless the save
\* itself fails the file holds the table as it is in memory.
BatchStep ==
    /\ (SeveralQualify /\ ExecuteUpdate("users", "name", StringLiteral("b"), WherePlain, Background)) =>
          /\ last'.err = ""
          /\ last'.count = Cardinality({pk \in MatchingKeys(tables["users"], PlainWhere) :
                 tables'["users"].Rows[pk].Values[GetColumnIndex(tables["users"].Def, "name")]
                 = StringLiteral("b")})
          /\ faults' = faults => Persisted(tables'["users"], disk')
    /\ (SeveralQualify /\ ExecuteDelete("users", WherePlain, Background)) =>
          /\ last'.err = ""
          /\ last'.count = Cardinality(DOMAIN tables["users"].Rows \ DOMAIN tables'["users"].Rows)
          /\ faults' = faults => Persisted(tables'["users"], disk')

\* C18: in a scan-based UPDATE or DELETE that qualifies several rows, a
\* constraint violation on one row aborts that row only: the statement still
\* returns the count of the rows it affected, with the table persisted.
C18_RowFailureAbortsRowOnly == [][BatchStep]_vars

\* One step in which the SaveTable of a statement fails: the statement returns an error.
SaveFailureStep ==
    (faults' = faults + 1 /\ last'.op \in {"create", "insert", "update", "delete"})
        => last'.err # ""

\* C19: a CREATE, INSERT, UPDATE or DELETE whose save fails returns an error;
\* Execute never reports success for it.
C19_SaveFailureSurfaced == [][SaveFailureStep]_vars

\* The checks of the context a plan makes when none finds it cancelled: one per
\* row of a scanned table and one after the scan, one for an index lookup, and
\* for a join one more per row of its left input, unless the join ends on its
\* missing column before it visits a row.
\* A JOIN clause whose ON columns are not both in the schemas of their sides.
JoinColumnAbsent(name, join) ==
    /\ join # NoJoin
    /\ name \in DOMAIN tables
    /\ join.Table \in DOMAIN tables
    /\ \/ GetColumnIndex(tables[name].Def, StripTablePrefix(join.OnLeft)) = 0
       \/ GetColumnIndex(tables[join.Table].Def, StripTablePrefix(join.OnRight)) = 0

ScanChecks(t) == Cardinality(DOMAIN t.Rows) + 1
PlanChecks(name, join, where, lo) ==
    (IF UsesIndexScan(tables[name], where) THEN 1 ELSE ScanChecks(tables[name]))
    + (IF join = NoJoin THEN 0
       ELSE IF JoinColumnAbsent(name, join) THEN ScanChecks(tables[join.Table])
       ELSE ScanChecks(tables[join.Table]) + Len(AccessExecute(tables[name], lo, where)))

\* The tables a statement names are resident, so that a plan is built and executed.
Planned(name, join) == name \in DOMAIN tables /\ (join = NoJoin \/ join.Table \in DOMAIN tables)

\* C20: in every reachable state, for every SELECT of the workload (a scan, an
\* index lookup, joins of two scans) and every point at which its
\* context may be cancelled: when the cancellation precedes one of the plan's
\* checks (before the statement starts, between two row iterations of a scan,
\* before the check that follows a scan, before a left row of the join) the
\* plan returns the cancellation error and no rows, never the rows collected so
\* far; when it comes after the last check the result is the one of the
\* uncancelled statement.  A cancelled SELECT that has returned shows no rows.
C20_CancelledSelectReturnsNoRows ==
    /\ \A q \in CancelSelects, budget \in Budgets :
          \A lo \in ScanOrders(q[1]), ro \in ScanOrders(q[2].Table) :
              Planned(q[1], q[2]) =>
                  LET where == ParseWhere(q[3]).expr
                      p == PlanExecuteCtx(tables, q[1], q[2], where, StmtLimit(q[4]), lo, ro, budget)
                  IN IF budget < PlanChecks(q[1], q[2], where, lo)
                     THEN p.err = Canceled /\ p.rows = <<>>
                     ELSE p = PlanExecute(tables, q[1], q[2], where, StmtLimit(q[4]), lo, ro)
    /\ (last.op = "select" /\ last.err = Canceled) => last.rows = <<>>

\* A SELECT on a table of two rows has returned the cancellation error.
C20_Witness ==
    /\ last.op = "select"
    /\ last.err = Canceled
    /\ last.name \in DOMAIN tables
    /\ Cardinality(DOMAIN tables[last.name].Rows) = 2

\* The WHERE clauses a plan is built for: none, every comparison of a column of
\* the table (or of no column of it) with a literal, and compound expressions.
PlanWheres(def) ==
    {NoWhere}
    \cup {Cmp(c, v) : c \in {def.Columns[i].Name : i \in 1..Len(def.Columns)} \cup {"nosuch"},
                      v \in ProbeLiterals}
    \cup {Infix(Cmp(def.Columns[1].Name, NumberLiteral(1)), op,
                Cmp(def.Columns[1].Name, NumberLiteral(1))) : op \in {"AND", "OR"}}

\* The WHERE clause is one equality comparison on a column flagged primary or unique.
IndexedEquality(def, where) ==
    /\ where.kind = "cmp"
    /\ \E i \in 1..Len(def.Columns) :
          /\ def.Columns[i].Name = where.Column
          /\ def.Columns[i].IsPrimary \/ def.Columns[i].IsUnique

\* C22: for every reachable table and every WHERE clause, planSelect builds an
\* IndexScanNode exactly when the clause is a single equality comparison on a
\* column flagged primary or unique, and otherwise a ScanNode carrying the
\* clause; and a SELECT with the equality of the key column and the key of a
\* stored row returns exactly that one row.
C22_IndexPathExactly ==
    \A name \in DOMAIN tables :
        /\ \A where \in PlanWheres(tables[name].Def) :
              /\ PlanNode(tables[name], where).node
                 = IF IndexedEquality(tables[name].Def, where) THEN "IndexScanNode" ELSE "ScanNode"
              /\ PlanNode(tables[name], where).Predicate = where
        /\ \A pk \in DOMAIN tables[name].Rows, order \in Orders(DOMAIN tables[name].Rows) :
              LET def == tables[name].Def
                  key == Cmp(def.Columns[PrimaryKeyIndex(def)].Name,
                             MkValue(def.Columns[PrimaryKeyIndex(def)].Type, pk))
              IN /\ PlanNode(tables[name], key).node = "IndexScanNode"
                 /\ PlanExecute(tables, name, NoJoin, key, 0, order, order).rows
                    = <<tables[name].Rows[pk]>>

\* A SELECT has returned one row of a table that holds two.
C22_Witness ==
    /\ last.op = "select"
    /\ last.err = ""
    /\ last.name \in DOMAIN tables
    /\ Len(last.rows) = 1
    /\ Cardinality(DOMAIN tables[last.name].Rows) = 2

\* One step of a successful INSERT, UPDATE or DELETE on a resident table, or of
\* a SELECT * without WHERE: INSERT adds exactly the row it was given and
\* leaves every other row as it was; UPDATE keeps the set of rows and changes
\* at most the one SET cell of a row; DELETE removes rows and leaves the others
\* as they were; the SELECT returns every row of the table once, as stored.
LiveRowsStep ==
    /\ (last'.op = "insert" /\ last'.err = "" /\ last'.name \in DOMAIN tables) =>
          \E values \in InsertValues(last'.name) :
              /\ KeyCell(tables[last'.name], values) \notin DOMAIN tables[last'.name].Rows
              /\ DOMAIN tables'[last'.name].Rows
                 = DOMAIN tables[last'.name].Rows \cup {KeyCell(tables[last'.name], values)}
              /\ tables'[last'.name].Rows[KeyCell(tables[last'.name], values)].Values = values
              /\ \A pk \in DOMAIN tables[last'.name].Rows :
                    tables'[last'.name].Rows[pk] = tables[last'.name].Rows[pk]
    /\ (last'.op = "update" /\ last'.err = "" /\ last'.name \in DOMAIN tables) =>
          /\ DOMAIN tables'[last'.name].Rows = DOMAIN tables[last'.name].Rows
          /\ \E set \in Assignments(last'.name) :
                \A pk \in DOMAIN tables[last'.name].Rows :
                    \/ tables'[last'.name].Rows[pk].Values = tables[last'.name].Rows[pk].Values
                    \/ tables'[last'.name].Rows[pk].Values
                       = Assigned(tables[last'.name], pk, set[1], set[2])
    /\ (last'.op = "delete" /\ last'.err = "" /\ last'.name \in DOMAIN tables) =>
          /\ DOMAIN tables'[last'.name].Rows \subseteq DOMAIN tables[last'.name].Rows
          /\ \A pk \in DOMAIN tables'[last'.name].Rows :
                tables'[last'.name].Rows[pk] = tables[last'.name].Rows[pk]
          /\ last'.count
             = Cardinality(DOMAIN tables[last'.name].Rows \ DOMAIN tables'[last'.name].Rows)
    /\ \A name \in DOMAIN tables :
          ExecSelect(<<"*">>, name, NoJoin, NoWhere, 0) =>
              /\ last'.err = ""
              /\ Len(last'.rows) = Cardinality(DOMAIN tables[name].Rows)
              /\ {last'.rows[n] : n \in 1..Len(last'.rows)}
                 = {tables[name].Rows[pk] : pk \in DOMAIN tables[name].Rows}

\* C23: the rows SELECT * FROM t without WHERE returns are exactly the live
\* rows of t, each once: every successful INSERT adds its row, every successful
\* UPDATE leaves the rows in place with their new values, every successful
\* DELETE removes rows and only those, and the SELECT returns what is left.
C23_SelectReturnsLiveRows == [][LiveRowsStep]_vars

\* A SELECT has returned the two rows of a table.
C23_Witness ==
    /\ last.op = "select"
    /\ last.err = ""
    /\ last.name \in DOMAIN tables
    /\ Len(last.rows) = 2
    /\ {last.rows[n] : n \in 1..2} = {tables[last.name].Rows[pk] : pk \in DOMAIN tables[last.name].Rows}
    /\ last.rows[1] # last.rows[2]

\* WHERE pk = k: a single equality on the table's primary-key column.
KeyWhere(def, where) ==
    /\ where.kind = "cmp"
    /\ where.Operator = "="
    /\ HasPrimaryKey(def)
    /\ where.Column = def.Columns[PrimaryKeyIndex(def)].Name

\* The keys of the rows whose primary-key cell is the literal k.
RowsWithKey(t, k) ==
    {pk \in DOMAIN t.Rows : SameTypeAndEqual(t.Rows[pk].Values[PrimaryKeyIndex(t.Def)], k)}

\* C24: on every reachable table, an UPDATE t SET c = v WHERE pk = k that
\* succeeds reports one updated row when the table holds row k, and SELECT * FROM
\* t WHERE pk = k then returns exactly one row, holding v in column c and the
\* values it had before in every other column; when no row has key k the
\* statement reports zero rows without error and changes nothing.
C24_UpdateByKey ==
    \A name \in UpdateNames \cap DOMAIN tables :
        \A set \in Assignments(name), where \in UpdateWheres(name) :
            KeyWhere(tables[name].Def, where) =>
                \A keys \in UpdateKeyLists(tables[name], where) :
                    LET r == UpdateKeys(tables[name], keys, 1, set[1], set[2], 0)
                    IN IF RowsWithKey(tables[name], where.Value) = {}
                       THEN r.err = "" /\ r.count = 0 /\ r.t = tables[name]
                       ELSE r.err = "" =>
                              /\ r.count = 1
                              /\ \E pk \in RowsWithKey(tables[name], where.Value) :
                                    /\ Len(AccessExecute(r.t, <<>>, where)) = 1
                                    /\ AccessExecute(r.t, <<>>, where)[1].Values
                                       = Assigned(tables[name], pk, set[1], set[2])

\* An UPDATE by key has changed the name of row 1 from 'a' to 'b'.
C24_Witness ==
    /\ last.op = "update"
    /\ last.err = ""
    /\ last.count = 1
    /\ "users" \in DOMAIN tables
    /\ IntVal(1) \in DOMAIN tables["users"].Rows
    /\ tables["users"].Rows[IntVal(1)].Values[2] = StringLiteral("b")

\* The keys Table.Delete is tried with: those of the live rows and the probes.
DeleteProbes(t) == DOMAIN t.Rows \cup {v.Val : v \in ProbeLiterals}

\* No index of the table maps any value to the key pk.
NoEntryFor(t, pk) ==
    \A c \in DOMAIN t.Indices : \A v \in DOMAIN t.Indices[c] : t.Indices[c][v] # pk

\* Table.Delete(pk) on the table t: an error and no change when no row has key
\* pk, otherwise the row and every index entry of it gone, the other rows kept.
DeleteRemovesRow(t, pk) ==
    LET r == TableDelete(t, MkValue(t.Def.Columns[PrimaryKeyIndex(t.Def)].Type, pk))
    IN IF pk \notin DOMAIN t.Rows THEN r.err # "" /\ r.t = t
       ELSE /\ r.err = ""
            /\ DOMAIN r.t.Rows = DOMAIN t.Rows \ {pk}
            /\ \A other \in DOMAIN r.t.Rows : r.t.Rows[other] = t.Rows[other]
            /\ NoEntryFor(r.t, pk)

\* A DELETE statement on the table t: the count it reports is the number of rows
\* gone, and no SELECT on the table it leaves returns anything but a row that is
\* still live, on either access path.
DeleteCounts(t, name) ==
    \A where \in Wheres(name) : \A keys \in DeleteKeyLists(t, where) :
        LET d == DeleteKeys(t, keys, 1, 0)
        IN /\ d.count = Cardinality(DOMAIN t.Rows \ DOMAIN d.t.Rows)
           /\ DOMAIN d.t.Rows \subseteq DOMAIN t.Rows
           /\ \A later \in Wheres(name) \cup {NoWhere} :
                 \A order \in Orders(DOMAIN d.t.Rows) :
                    RowSet(AccessExecute(d.t, order, later))
                       \subseteq {d.t.Rows[pk].Values : pk \in DOMAIN d.t.Rows}

\* C25: on every reachable table, Table.Delete(pk) fails when no row has key pk
\* and otherwise removes the row together with every primary and unique index
\* entry of it; a DELETE statement reports the number of rows it removed, and a
\* later SELECT returns none of them, by scan or by index lookup.
C25_DeleteRemovesRowAndEntries ==
    \A name \in DmlNames \cap DOMAIN tables :
        /\ \A pk \in DeleteProbes(tables[name]) : DeleteRemovesRow(tables[name], pk)
        /\ DeleteCounts(tables[name], name)

NoWhereStep ==
    (\/ ExecuteUpdate("users", "name", StringLiteral("b"), <<>>, Background)
     \/ ExecuteDelete("users", <<>>, Background)) =>
        /\ last'.err # ""
        /\ last'.count = 0
        /\ tables' = tables
        /\ disk' = disk
        /\ save' = save

\* C26: an UPDATE or a DELETE statement without a WHERE clause returns an error
\* from the parser, and leaves every table's rows and indices and every file as
\* they were.
C26_WhereRequired == [][NoWhereStep]_vars

\* A DELETE without WHERE has been rejected on a table that holds two rows.
C26_Witness ==
    /\ last.op = "delete"
    /\ last.err = "DELETE requires WHERE"
    /\ "users" \in DOMAIN tables
    /\ Cardinality(DOMAIN tables["users"].Rows) = 2

\* C27: CreatePlan returns an error for every SELECT whose FROM table or JOIN
\* table does not exist, and for every SELECT whose ON clause names a column
\* absent from the schema of its side, so that no plan node is executed.
C27_PlanningRejects ==
    \A q \in CancelSelects :
        (\/ q[1] \notin DOMAIN tables
         \/ q[2] # NoJoin /\ q[2].Table \notin DOMAIN tables
         \/ JoinColumnAbsent(q[1], q[2])) => CreatePlan(tables, q[1], q[2]) # ""

UnknownColumnStep ==
    \A w \in {WhereUnknown, WhereQualified}, limit \in LimitClauses :
        (/\ "users" \in DOMAIN tables
         /\ IntVal(1) \in DOMAIN tables["users"].Rows
         /\ ExecuteSelect("users", NoJoin, w, limit, Background)) => last'.err # ""

\* C28: a SELECT on a table that holds the row with id 1, whose WHERE clause
\* names a column that is not in the schema of the table, under a plain name
\* (nosuch = 1) or a table-qualified one (users.id = 1), returns an error to the
\* caller.
C28_UnknownColumnIsError == [][UnknownColumnStep]_vars

\* The positions in the schema of the columns a field names, its leading table
\* qualifier stripped.
Named(schema, field) ==
    {i \in 1..Len(schema.Columns) : schema.Columns[i].Name = StripTablePrefix(field)}

\* The first column a field names.
FirstNamed(schema, field) ==
    CHOOSE i \in Named(schema, field) : \A j \in Named(schema, field) : i <= j

\* Projection of the rows a plan returned under a field list.
ProjectionOf(rows, schema, fields) ==
    LET r == ProjectResult(rows, schema, fields)
    IN IF \E k \in 1..Len(fields) : fields[k] = "*"
       THEN /\ r.err = ""
            /\ r.rows = rows
            /\ ProjectColumns(schema, fields)
               = [i \in 1..Len(schema.Columns) |-> schema.Columns[i].Name]
       ELSE IF \E k \in 1..Len(fields) : Named(schema, fields[k]) = {}
       THEN r.err # ""
       ELSE /\ r.err = ""
            /\ Len(r.rows) = Len(rows)
            /\ ProjectColumns(schema, fields) = fields
            /\ \A n \in 1..Len(rows) :
                  r.rows[n].Values
                  = [k \in 1..Len(fields) |-> rows[n].Values[FirstNamed(schema, fields[k])]]

C30_FileMatchesMemory ==
    (faults = 0 /\ save.pc = "idle") =>
        \A name \in DOMAIN tables :
            /\ LoadTable(disk, name).err = ""
            /\ RowValues(LoadTable(disk, name).t) = RowValues(tables[name])

\* A goroutine is inside a reading method of the table, under the read lock.
Reading(g) == gor[g].pc = "reading"

\* A goroutine is inside Insert, Update or Delete, under the write lock.
Writing(g) == gor[g].pc \in {"locked", "half", "done"}

\* C21: under every interleaving of goroutines in Insert, Update and Delete with
\* goroutines in GetRow, Scan, IndexLookup and GetSnapshot on one table, while a
\* goroutine is inside a reading method no goroutine is inside a mutation, and
\* the table it reads has every row in each primary and unique index and no
\* index entry without its row: a mutation is seen whole or not at all.
C21_MutationsAtomic ==
    \A g \in Goroutines :
        Reading(g) =>
            /\ \A w \in Goroutines : ~Writing(w)
            /\ IndexMatchesRows(tables[Shared])

\* A goroutine is inside IndexLookup on a table of two rows, the name of row 1
\* having been set to 'b' by an Insert or an Update of another goroutine.
C21_Witness ==
    /\ \E g \in Goroutines : Reading(g) /\ gor[g].op = "IndexLookup"
    /\ Cardinality(DOMAIN tables[Shared].Rows) = 2
    /\ tables[Shared].Rows[IntVal(1)].Values[2] = StringLiteral("b")

----------------------------------------------------------------------------
(* CREATE TABLE over a persisted table *)

\* The rows LoadTable reads from a table's file (none when there is no readable file).
FileRows(dir, name) ==
    IF LoadTable(dir, name).err # "" THEN EmptyMap ELSE LoadTable(dir, name).t.Rows

\* One step that ends with the return of a CREATE TABLE statement for a name
\* that is not resident and whose file holds rows.
CreateOverFileStep ==
    (/\ last'.op = "create"
     /\ last'.name \notin DOMAIN tables
     /\ FileRows(disk, last'.name) # EmptyMap)
    => \/ last'.err = "table already exists"
       \/ FileRows(disk', last'.name) = FileRows(disk, last'.name)

\* C31: a CREATE TABLE executed by an engine that has not loaded the table, for
\* a name whose file holds rows, is rejected as already existing or leaves the
\* rows of the file readable.
C31_CreateKeepsPersistedRows == [][CreateOverFileStep]_vars

----------------------------------------------------------------------------
(* UPDATE and DELETE: the rows outside the WHERE clause *)

\* The keys of the rows that satisfy WHERE col = literal: the table has the
\* column, and the row's cell has the literal's type and value.
Satisfying(t, where) ==
    {pk \in DOMAIN t.Rows :
        /\ GetColumnIndex(t.Def, where.Column) # 0
        /\ SameTypeAndEqual(t.Rows[pk].Values[GetColumnIndex(t.Def, where.Column)], where.Value)}

\* The index entries that point at the row pk.
EntriesOf(t, pk) ==
    {<<c, v>> \in UNION {{<<c, v>> : v \in DOMAIN t.Indices[c]} : c \in DOMAIN t.Indices} :
        t.Indices[c][v] = pk}

\* The row pk of the table before is in the table after, with the same cells
\* and the same index entries.
Untouched(before, after, pk) ==
    /\ pk \in DOMAIN after.Rows
    /\ after.Rows[pk] = before.Rows[pk]
    /\ EntriesOf(after, pk) = EntriesOf(before, pk)

\* C32: on every reachable table, an UPDATE or DELETE statement leaves every row
\* that does not satisfy its WHERE comparison (the cell and the literal have the
\* same type and are equal) as it was, together with its index entries; in
\* particular it changes no row when the literal's type is not the column's.
C32_OnlyMatchingRowsChange ==
    \A name \in DmlNames \cap DOMAIN tables :
        /\ \A where \in Wheres(name) : \A keys \in DeleteKeyLists(tables[name], where) :
              \A pk \in DOMAIN tables[name].Rows \ Satisfying(tables[name], where) :
                  Untouched(tables[name], DeleteKeys(tables[name], keys, 1, 0).t, pk)
        /\ name \in UpdateNames =>
              \A set \in Assignments(name), where \in UpdateWheres(name) :
                  \A keys \in UpdateKeyLists(tables[name], where) :
                      \A pk \in DOMAIN tables[name].Rows \ Satisfying(tables[name], where) :
                          Untouched(tables[name],
                                    UpdateKeys(tables[name], keys, 1, set[1], set[2], 0).t, pk)

----------------------------------------------------------------------------
(* Joins: one left row matching several right rows *)

\* The n-th row a join emits is its own left row followed by its own right row.
OwnRightRow(rows, leftRows, rightRows, pairs, n) ==
    rows[n].Values = leftRows[pairs[n][1]].Values \o rightRows[pairs[n][2]].Values

\* The join of the two scanned inputs: every row emitted for a left row that
\* matches two or more right rows holds that left row and its own right row.
SeveralMatches(leftRows, rightRows, lSchema, rSchema, leftCol, rightCol) ==
    LET pairs == JoinPairs(leftRows, rightRows, GetColumnIndex(lSchema, leftCol),
                           GetColumnIndex(rSchema, rightCol), 1)
        res == JoinExecute(leftRows, rightRows, lSchema, rSchema, leftCol, rightCol)
    IN res.err = "" =>
          \A n \in 1..Len(pairs) :
              (\E m \in 1..Len(pairs) : m # n /\ pairs[m][1] = pairs[n][1])
                  => OwnRightRow(res.rows, leftRows, rightRows, pairs, n)

\* C33: in every join over reachable tables, when a left row matches two or more
\* right rows, each of the rows emitted for it consists of the left row's values
\* followed by the values of its own right row (a combined row built later does
\* not change one built earlier).
C33_JoinRowsIndependent ==
    \A q \in JoinSelects :
        (q[1] \in DOMAIN tables /\ q[2].Table \in DOMAIN tables) =>
        \A lo \in Orders(DOMAIN tables[q[1]].Rows), ro \in Orders(DOMAIN tables[q[2].Table].Rows) :
            SeveralMatches(RowsInOrder(tables[q[1]], lo), RowsInOrder(tables[q[2].Table], ro),
                           tables[q[1]].Def, tables[q[2].Table].Def,
                           StripTablePrefix(q[2].OnLeft), StripTablePrefix(q[2].OnRight))

----------------------------------------------------------------------------
(* Joins: the order of the two operands of ON *)

\* The JOIN clause with the operands of ON written the other way round.
Swapped(join) == Join(join.Table, join.OnRight, join.OnLeft)

\* C34: on every reachable pair of tables, FROM A JOIN B ON A.x = B.y and
\* FROM A JOIN B ON B.y = A.x give the same result (the same rows, or the same
\* error), whatever order the scans visit the rows in.
C34_OnOrderIrrelevant ==
    \A q \in JoinSelects :
        (q[1] \in DOMAIN tables /\ q[2].Table \in DOMAIN tables) =>
        \A lo \in Orders(DOMAIN tables[q[1]].Rows), ro \in Orders(DOMAIN tables[q[2].Table].Rows) :
            PlanExecute(tables, q[1], Swapped(q[2]), NoWhere, 0, lo, ro)
            = PlanExecute(tables, q[1], q[2], NoWhere, 0, lo, ro)

----------------------------------------------------------------------------
(* UPDATE and DELETE under a cancelled context *)

\* One step that is an UPDATE or a DELETE on the scan path (WHERE on a column
\* that is not the key) of the resident table users, submitted with a context
\* that is already cancelled.
CancelledDmlStep ==
    (/\ "users" \in DOMAIN tables
     /\ \/ ExecuteUpdate("users", "name", StringLiteral("b"), WherePlain, Cancelled)
        \/ ExecuteDelete("users", WherePlain, Cancelled))
    => (last'.err = Canceled /\ tables' = tables)

\* C35: an UPDATE or DELETE that finds its rows by scan and is executed with the
\* context already cancelled returns the context's error and changes no row.
C35_CancelledDmlChangesNothing == [][CancelledDmlStep]_vars

----------------------------------------------------------------------------
(* Concurrent callers: what a statement returns and leaves behind *)

\* The caller has returned from Execute with the result of a statement op that
\* succeeded.
Succeeded(g, op) == gor[g].pc = "done" /\ gor[g].stmt.op = op /\ gor[g].res.err = ""

\* C36: every row a SELECT ... WHERE c = v that runs as an index scan returns,
\* with other callers writing to the table, holds v in column c.
C36_IndexScanSeesOneState ==
    \A g \in DOMAIN gor :
        Succeeded(g, "select") =>
            \A n \in 1..Len(gor[g].res.rows) :
                SameTypeAndEqual(
                    gor[g].res.rows[n].Values[GetColumnIndex([Name |-> Shared, Columns |-> UsersColumns],
                                                             gor[g].stmt.where.Column)],
                    gor[g].stmt.where.Value)

\* The callers have both returned from a successful UPDATE of the row with key
\* 1, the one setting the name and the other the email.
BothUpdated(g, h) ==
    /\ Succeeded(g, "update") /\ gor[g].stmt.col = "name" /\ gor[g].res.count = 1
    /\ Succeeded(h, "update") /\ gor[h].stmt.col = "email" /\ gor[h].res.count = 1

\* C37: when two concurrent UPDATE statements on the same row, setting different
\* columns, have both returned 'Updated 1 rows', the row holds both new values.
C37_NoLostUpdate ==
    \A g, h \in DOMAIN gor :
        (BothUpdated(g, h) /\ Shared \in DOMAIN tables /\ IntVal(1) \in DOMAIN tables[Shared].Rows) =>
            /\ tables[Shared].Rows[IntVal(1)].Values[2] = gor[g].stmt.val
            /\ tables[Shared].Rows[IntVal(1)].Values[3] = gor[h].stmt.val

\* Every caller has returned from Execute (the process has not been ended).
AllReturned == \A g \in DOMAIN gor : gor[g].pc = "done"

\* A mutating statement of some caller changed the table and was saved.
SomeSaved ==
    \E g \in DOMAIN gor : gor[g].stmt.op \in {"create", "insert", "update"} /\ gor[g].res.err = ""

\* C38: when the concurrent statements have all returned and one of them
\* mutated the table, the table's file holds the rows of the registered table
\* as they are in memory.
C38_FileHoldsFinalState ==
    (AllReturned /\ SomeSaved /\ Shared \in DOMAIN tables) => Persisted(tables[Shared], disk)

\* The keys of the rows the INSERT statements that returned success put in.
InsertedKeys ==
    {gor[g].stmt.values[1].Val : g \in {h \in DOMAIN gor : Succeeded(h, "insert")}}

\* C39: of the concurrent CREATE TABLE statements for one name at most one
\* returns success, and once every caller has returned the registered table
\* holds every row an INSERT statement reported as inserted (no statement
\* deletes a row here).
C39_RegistryKeepsTables ==
    /\ \A g, h \in DOMAIN gor : (Succeeded(g, "create") /\ Succeeded(h, "create")) => g = h
    /\ AllReturned => /\ InsertedKeys # {} => Shared \in DOMAIN tables
                      /\ Shared \in DOMAIN tables => InsertedKeys \subseteq DOMAIN tables[Shared].Rows

----------------------------------------------------------------------------
(* Concurrent callers: the locks *)

\* No caller is about to take the lock of a table it holds already.
NoReentry ==
    \A g \in DOMAIN gor :
        (gor[g].pc = "run" /\ NextOp(g).do \in {"Lock", "RLock"}) => Holds(g, NextOp(g).on) = 0

\* C40: in every interleaving of the callers' statements, no caller takes the
\* lock of a table while it holds that lock, and every call of Execute that has
\* started returns.
C40_EveryCallReturns ==
    /\ []NoReentry
    /\ \A g \in Callers : (gor[g].pc = "run") ~> (gor[g].pc = "done")

\* A caller is blocked in Lock on the table users while the other caller holds
\* its read lock.
C40_Witness ==
    \E g, h \in DOMAIN gor :
        /\ g # h
        /\ gor[g].pc = "run" /\ gor[g].waiting /\ NextOp(g).on = "users"
        /\ gor[h].pc = "run" /\ Holds(h, "users") = 1
        /\ mu["users"].readers = 1

====
